---- MODULE Spec2Model ----
(***************************************************************************)
(* A model of larpandora's LArPandoraShowerAlg.cxx: the hit snippet        *)
(* organizer (OrganizeHits), the orderings of hits and spacepoints, and    *)
(* the trajectory dE/dx tool (ShowerTrajPointdEdx::CalculateElement and    *)
(* FinddEdxLength).                                                        *)
(*                                                                         *)
(* Each group of operations has its own specification over the same        *)
(* variables; the variables of the other groups stay at their idle values. *)
(*   SpecOrganize  OrganizeHits on a drawn hit list                        *)
(*   SpecTrim      FinddEdxLength on a drawn dE/dx sequence and cut        *)
(*   SpecCalc      CalculateElement on a drawn element store and track     *)
(*   SpecPoint     CalculateElement's loop body on one drawn spacepoint    *)
(*   SpecOrder     the four ordering operations, applied repeatedly        *)
(*   SpecCentre    the ShowerCentre overloads on a drawn point set         *)
(*   SpecGradient  RMSShowerGradient on a drawn point set and axis         *)
(*   SpecSCE       SCECorrectPitch and SCECorrectEField on a drawn service *)
(*                                                                         *)
(* Numbers are integers.  A length (TVector R()) is kept as its square,    *)
(* which orders and compares equal exactly as the length does.             *)
(***************************************************************************)
EXTENDS Integers, Sequences, FiniteSets, TLC

VARIABLES
  \* OrganizeHits
  orgHits,      \* the argument: a list of art::Ptr<recob::Hit>
  orgRet,       \* the returned map, primary -> secondaries
  orgPc,        \* "idle" | "start" | "done"
  \* FinddEdxLength
  fdEdxCut,     \* the tool's configured cut
  dEdx_vec,     \* the argument sequence
  dEdx_val,     \* the output sequence
  trimPc,       \* "idle" | "start" | "done"
  \* The ordering operations
  ordMode,      \* "idle" | "hits" | "sps": which collection is being ordered
  ordHits,      \* OrderShowerHits' in/out argument hits
  ordSps,       \* the spacepoint orderings' in/out argument showersps
  ordVertex,    \* the argument vertex / ShowerStartPosition
  ordDirection, \* the argument direction / ShowerDirection
  ordInput,     \* the collection as first given
  ordOps,       \* the ordering operations applied so far, oldest first
  ordPrev,      \* the collection as it was handed to the latest operation
  \* ShowerTrajPointdEdx::CalculateElement
  ShowerEleHolder,   \* the element store: label -> value, for the labels set
  fUseMedian,        \* fcl UseMedian
  fSumHitSnippets,   \* fcl SumHitSnippets
  fCutStartPosition, \* fcl CutStartPosition
  fSCECorrectPitch,  \* fcl SCECorrectPitch
  EnableCalSpatialSCE, \* the space charge service's calibrated-spatial capability
  calcPc,            \* "idle" | "start" | "loop" | "select" | "done"
  calcRet,           \* "none" | "return 0" | "return 1" | "throw"
  spLeft,            \* spacepoints of tracksps the loop has yet to visit
  num_hits,          \* the local num_hits: plane -> accepted points
  calc_dEdx_vec,     \* the local dEdx_vec: plane -> dE/dx values pushed
  \* ShowerCentre
  ctrSps,            \* the argument showersps, each spacepoint with its fmh hits
  fUseCollectionOnly, \* fcl UseCollectionOnly
  totalCharge,       \* the caller's float behind the totalCharge reference
  ctrTotalAtCall,    \* totalCharge as it was when the five-argument call was made
  ctrRet,            \* the point the charge-weighted ShowerCentre returned
  ctrPlain,          \* the point ShowerCentre(showersps) returned
  ctrOps,            \* the ShowerCentre overloads called so far
  \* RMSShowerGradient
  grSps,             \* the caller's collection behind the sps reference
  grInput,           \* the collection as it was at the call
  grCentre,          \* the argument ShowerCentre
  grDirection,       \* the argument Direction
  nSegments,         \* the argument nSegments
  grRet,             \* what the call returned (or that it threw)
  grPc,              \* "idle" | "start" | "done"
  \* SCECorrectPitch and SCECorrectEField
  fSCE,              \* the space charge service: presence and capabilities
  sceArg,            \* the pitch or EField handed to the correction
  sceLookups,        \* the offset lookups made on the service, oldest first
  sceRet,            \* what the latest correction returned (or that it threw)
  sceOps,            \* the corrections called so far
  \* CalculateElement's loop over tracksps, one iteration
  visitSp,           \* the spacepoint sp of the iteration, with its fmsp hits
  visitIndex,        \* the local index after the loop over the trajectory points
  visitVerdict,      \* how the iteration ended, and the dE/dx it pushed
  visitPc            \* "idle" | "start" | "done"

orgVars  == <<orgHits, orgRet, orgPc>>
trimVars == <<fdEdxCut, dEdx_vec, dEdx_val, trimPc>>
ordVars  ==
  <<ordMode, ordHits, ordSps, ordVertex, ordDirection, ordInput, ordOps, ordPrev>>

calcVars ==
  <<ShowerEleHolder, fUseMedian, fSumHitSnippets, fCutStartPosition, fSCECorrectPitch,
    EnableCalSpatialSCE, calcPc, calcRet, spLeft, num_hits, calc_dEdx_vec>>

ctrVars ==
  <<ctrSps, fUseCollectionOnly, totalCharge, ctrTotalAtCall, ctrRet, ctrPlain, ctrOps>>
grVars == <<grSps, grInput, grCentre, grDirection, nSegments, grRet, grPc>>
sceVars == <<fSCE, sceArg, sceLookups, sceRet, sceOps>>
visitVars == <<visitSp, visitIndex, visitVerdict, visitPc>>
algVars == <<ctrVars, grVars, sceVars, visitVars>>

vars == <<orgVars, trimVars, ordVars, calcVars, algVars>>

(***************************************************************************)
(* Bounds and value domains.                                               *)
(***************************************************************************)
MaxHits == 3          \* longest hit list handed to OrganizeHits
MaxdEdx == 5          \* longest dE/dx sequence handed to FinddEdxLength
MaxOrd == 3           \* longest collection handed to an ordering operation
MaxCalls == 2         \* ordering operations applied in a row
MaxSps == 3           \* longest tracksps handed to CalculateElement

SeqsUpTo(S, n) == UNION {[1..k -> S] : k \in 0..n}

Range(s) == {s[i] : i \in DOMAIN s}

\* (plane, wire, startTick, endTick) of the drawn hits: a base snippet and one
\* snippet differing from it in each single component.
Snippets ==
  {<<0, 1, 0, 5>>, <<1, 1, 0, 5>>, <<0, 2, 0, 5>>, <<0, 1, 1, 5>>, <<0, 1, 0, 6>>}
Integrals == {5, 10}

\* A recob::Hit behind an art::Ptr.  The record stands for the Ptr: key tells
\* apart two Ptrs whose hits have equal attributes.
HitPool ==
  {[key |-> k, plane |-> s[1], wire |-> s[2], startTick |-> s[3], endTick |-> s[4],
    integral |-> q] :
     k \in {0, 1}, s \in Snippets, q \in Integrals}

IdleOrg  == orgHits = <<>> /\ orgRet = <<>> /\ orgPc = "idle"
IdleTrim == fdEdxCut = 0 /\ dEdx_vec = <<>> /\ dEdx_val = <<>> /\ trimPc = "idle"
IdleOrd ==
  /\ ordMode = "idle" /\ ordHits = <<>> /\ ordSps = <<>>
  /\ ordVertex = <<0, 0, 0>> /\ ordDirection = <<0, 0, 0>>
  /\ ordInput = <<>> /\ ordOps = <<>> /\ ordPrev = <<>>
IdleCalc ==
  /\ ShowerEleHolder = <<>>
  /\ fUseMedian = FALSE /\ fSumHitSnippets = FALSE /\ fCutStartPosition = FALSE
  /\ fSCECorrectPitch = FALSE /\ EnableCalSpatialSCE = FALSE
  /\ calcPc = "idle" /\ calcRet = "none" /\ spLeft = 0
  /\ num_hits = <<>> /\ calc_dEdx_vec = <<>>

\* A float or double: <<n, d>> is n/d in lowest terms for d > 0, <<1, 0>> is
\* +inf, <<-1, 0>> is -inf and <<0, 0>> is NaN.  Rounding is left out.
NaN == <<0, 0>>
Zero == <<0, 1>>

\* What a call left behind: kind is "none" before it returns, then "throw",
\* "return 0" (with the test that led to it in why) or "value"; a value is kept
\* by its parts, which a later section names.
Returned(kind, why, parts, denom) ==
  [kind |-> kind, why |-> why, parts |-> parts, denom |-> denom]
NoReturn == Returned("none", "", <<>>, 1)
Thrown == Returned("throw", "", <<>>, 1)
ReturnZero(why) == Returned("return 0", why, <<>>, 1)

NoService == [present |-> FALSE, EnableCalSpatialSCE |-> FALSE, EnableSimEfieldSCE |-> FALSE]

IdleCtr ==
  /\ ctrSps = <<>> /\ fUseCollectionOnly = FALSE /\ totalCharge = Zero
  /\ ctrTotalAtCall = Zero /\ ctrRet = <<>> /\ ctrPlain = <<>> /\ ctrOps = {}
IdleGr ==
  /\ grSps = <<>> /\ grInput = <<>> /\ grCentre = <<0, 0, 0>>
  /\ grDirection = <<0, 0, 0>> /\ nSegments = 0 /\ grRet = NoReturn
  /\ grPc = "idle"
IdleSce ==
  /\ fSCE = NoService /\ sceArg = 0 /\ sceLookups = <<>>
  /\ sceRet = NoReturn /\ sceOps = <<>>
NoSpacePoint == [pos |-> <<0, 0, 0>>, hits |-> <<>>]
NoVerdict == [kind |-> "none", at |-> "", dEdx |-> 0]
IdleVisit ==
  /\ visitSp = NoSpacePoint /\ visitIndex = 0 /\ visitVerdict = NoVerdict
  /\ visitPc = "idle"
IdleAlg == IdleCtr /\ IdleGr /\ IdleSce /\ IdleVisit

(***************************************************************************)
(* OrganizeHits                                                            *)
(***************************************************************************)
nplanes == 6

\* struct HitIdentifier and its constructor
HitIdentifier(hit) ==
  [startTick |-> hit.startTick, endTick |-> hit.endTick, wire |-> hit.wire,
   integral |-> hit.integral]

\* A snippet test that forgets the wire.
IdentEqNoWire(a, b) == a.startTick = b.startTick /\ a.endTick = b.endTick

\* HitIdentifier::operator==
IdentEq(a, b) ==
  a.startTick = b.startTick /\ a.endTick = b.endTick /\ a.wire = b.wire

\* A comparison that lets a later hit of equal integral take over.
IdentGe(a, b) == a.integral >= b.integral

\* HitIdentifier::operator>
IdentGt(a, b) == a.integral > b.integral

\* The inner loop over j: the first j at which this_ident == hit_idents[plane][j],
\* 0 when the loop ends with found_snippet false.
FindSnippet(idents, this_ident) ==
  LET js == {j \in DOMAIN idents : IdentEq(this_ident, idents[j])}
  IN  IF js = {} THEN 0 ELSE CHOOSE j \in js : \A k \in js : j <= k

\* One iteration of the loop over i: st is [org, ids], the vectors hits_org and
\* hit_idents indexed by plane.
OrganizeStep(hits, i, st) ==
  LET p == hits[i].plane
      this_ident == HitIdentifier(hits[i])
      j == FindSnippet(st.ids[p], this_ident)
  IN  IF j = 0
        THEN [org |-> [st.org EXCEPT ![p] = Append(@, [first |-> i, second |-> <<>>])],
              ids |-> [st.ids EXCEPT ![p] = Append(@, this_ident)]]
      ELSE IF IdentGt(this_ident, st.ids[p][j])
        THEN [org |-> [st.org EXCEPT ![p][j] =
                         [first |-> i, second |-> Append(@.second, @.first)]],
              ids |-> [st.ids EXCEPT ![p][j] = this_ident]]
      ELSE   [org |-> [st.org EXCEPT ![p][j].second = Append(@, i)],
              ids |-> st.ids]

RECURSIVE OrganizeLoop(_, _, _)
OrganizeLoop(hits, i, st) ==
  IF i > Len(hits) THEN st
  ELSE OrganizeLoop(hits, i + 1, OrganizeStep(hits, i, st))

\* The second loop nest: ret[hits[first]] = the secondaries, plane by plane.
RECURSIVE FlattenPlane(_, _, _, _)
FlattenPlane(hits, planeHits, n, ret) ==
  IF n > Len(planeHits) THEN ret
  ELSE LET hit_org == planeHits[n]
           secondaryHits == [m \in 1..Len(hit_org.second) |-> hits[hit_org.second[m]]]
           primary == hits[hit_org.first]
       IN  FlattenPlane(hits, planeHits, n + 1,
             [h \in DOMAIN ret \cup {primary} |->
                IF h = primary THEN secondaryHits ELSE ret[h]])

RECURSIVE Flatten(_, _, _, _)
Flatten(hits, hits_org, p, ret) ==
  IF p >= nplanes THEN ret
  ELSE Flatten(hits, hits_org, p + 1, FlattenPlane(hits, hits_org[p], 1, ret))

OrganizeHits(hits) ==
  LET empty == [p \in 0..(nplanes - 1) |-> <<>>]
      st == OrganizeLoop(hits, 1, [org |-> empty, ids |-> empty])
  IN  Flatten(hits, st.org, 0, <<>>)

InitOrganize ==
  /\ orgHits \in SeqsUpTo(HitPool, MaxHits)
  /\ \A i \in DOMAIN orgHits : orgHits[i].plane < nplanes
  /\ orgRet = <<>>
  /\ orgPc = "start"
  /\ IdleTrim /\ IdleOrd /\ IdleCalc /\ IdleAlg

OrganizeHitsCall ==
  /\ orgPc = "start"
  /\ orgRet' = OrganizeHits(orgHits)
  /\ orgPc' = "done"
  /\ UNCHANGED <<orgHits, trimVars, ordVars, calcVars, algVars>>

NextOrganize == OrganizeHitsCall

SpecOrganize == InitOrganize /\ [][NextOrganize]_vars

\* The snippet group of a hit: plane, wire, start tick, end tick.
Snippet(h) == <<h.plane, h.wire, h.startTick, h.endTick>>

SnippetGroup(hits, h) == {i \in DOMAIN hits : Snippet(hits[i]) = Snippet(h)}

\* The earliest index, among the hits of h's group, that has the group's
\* maximum integral.
EarliestMaxIndex(hits, h) ==
  LET G == SnippetGroup(hits, h)
      best == {i \in G : \A j \in G : hits[j].integral <= hits[i].integral}
  IN  CHOOSE i \in best : \A j \in best : i <= j

\* Two hits of one snippet with integrals 5 and 10, in either order.
FiveAndTen(hits) ==
  /\ Len(hits) = 2
  /\ Snippet(hits[1]) = Snippet(hits[2])
  /\ {hits[1].integral, hits[2].integral} = {5, 10}

\* C1: every key of the returned map is the earliest hit of its snippet group
\* that has the group's maximum integral; for two hits of one snippet with
\* integrals 5 and 10, in either order, the integral-10 hit is the only key and
\* its secondary list is exactly the integral-5 hit.
C1_PrimaryIsEarliestMax ==
  orgPc = "done" =>
    /\ \A k \in DOMAIN orgRet :
         /\ SnippetGroup(orgHits, k) # {}
         /\ k = orgHits[EarliestMaxIndex(orgHits, k)]
    /\ FiveAndTen(orgHits) =>
         \E a, b \in Range(orgHits) :
           /\ a.integral = 10 /\ b.integral = 5
           /\ DOMAIN orgRet = {a}
           /\ orgRet[a] = <<b>>

\* C1 witness: three distinct hits of one snippet, integrals 5, 10, 10 in that
\* order; the first integral-10 hit is the key.
C1_Witness ==
  /\ orgPc = "done"
  /\ Len(orgHits) = 3
  /\ Snippet(orgHits[1]) = Snippet(orgHits[2])
  /\ Snippet(orgHits[2]) = Snippet(orgHits[3])
  /\ orgHits[1].integral = 5
  /\ orgHits[2].integral = 10
  /\ orgHits[3].integral = 10
  /\ orgHits[2] # orgHits[3]
  /\ DOMAIN orgRet = {orgHits[2]}

DistinctHits(hits) == \A i, j \in DOMAIN hits : i # j => hits[i] # hits[j]

\* The places of the result that hold hit h: <<k, 0>> for the key k itself,
\* <<k, m>> for entry m of k's secondary list.
PlacesOf(ret, h) ==
  {<<k, 0>> : k \in DOMAIN ret \cap {h}} \cup
  {pl \in UNION {{<<k, m>> : m \in DOMAIN ret[k]} : k \in DOMAIN ret} :
     ret[pl[1]][pl[2]] = h}

\* C2: for a list of distinct hits (planes below 6) every input hit is in the
\* result exactly once, as a key or in one secondary list; the result holds
\* nothing else; there are as many keys as distinct (plane, wire, start tick,
\* end tick) tuples; every secondary has its key's tuple.
C2_Partition ==
  (/\ orgPc = "done"
   /\ DistinctHits(orgHits)
   /\ \A i \in DOMAIN orgHits : orgHits[i].plane < nplanes) =>
    /\ \A h \in Range(orgHits) : Cardinality(PlacesOf(orgRet, h)) = 1
    /\ \A k \in DOMAIN orgRet :
         /\ k \in Range(orgHits)
         /\ \A m \in DOMAIN orgRet[k] :
              /\ orgRet[k][m] \in Range(orgHits)
              /\ Snippet(orgRet[k][m]) = Snippet(k)
    /\ Cardinality(DOMAIN orgRet) =
         Cardinality({Snippet(h) : h \in Range(orgHits)})

\* C2 witness: three distinct hits, two snippets, one secondary.
C2_Witness ==
  /\ orgPc = "done"
  /\ DistinctHits(orgHits)
  /\ Len(orgHits) = 3
  /\ Cardinality(DOMAIN orgRet) = 2
  /\ \E k \in DOMAIN orgRet : Len(orgRet[k]) = 1
  /\ \E i, j \in DOMAIN orgHits : orgHits[i].wire # orgHits[j].wire

(***************************************************************************)
(* ShowerTrajPointdEdx::FinddEdxLength                                     *)
(***************************************************************************)
dEdxValues == {1, 10, 20, 21}
dEdxCuts == {10, 11}

\* The cut is applied unless fdEdxCut > 10.
CutDisabledAbove == 10

\* The body of the for loop at 0-based index dEdx_iter: "push" appends the
\* value and continues, "drop" continues without it, "break" leaves the loop.
ScanVerdict(cut, vec, upperbound, dEdx_iter) ==
  LET dEdx == vec[dEdx_iter + 1]
      size == Len(vec)
      consistent == IF upperbound THEN dEdx > cut ELSE dEdx < cut
  IN  IF consistent THEN "push"
      ELSE IF dEdx_iter < size - 1 /\ vec[dEdx_iter + 2] > cut THEN "drop"
      ELSE IF dEdx_iter < size - 2 /\ vec[dEdx_iter + 3] > cut THEN "drop"
      ELSE "break"

\* The scan starts two places in: at the third value.
ScanStart == 2

RECURSIVE Scan(_, _, _, _, _)
Scan(cut, vec, upperbound, dEdx_iter, val) ==
  IF dEdx_iter >= Len(vec) THEN val
  ELSE LET v == ScanVerdict(cut, vec, upperbound, dEdx_iter)
       IN  IF v = "break" THEN val
           ELSE Scan(cut, vec, upperbound, dEdx_iter + 1,
                     IF v = "push" THEN Append(val, vec[dEdx_iter + 1]) ELSE val)

\* A regime test that one value above the cut is enough for.
UpperBoundAny(cut, vec) ==
  LET upperbound_int == Cardinality({i \in 1..3 : vec[i] > cut})
  IN  upperbound_int > 0

\* upperbound_int > 1
UpperBound(cut, vec) ==
  LET upperbound_int == Cardinality({i \in 1..3 : vec[i] > cut})
  IN  upperbound_int > 1

\* FinddEdxLength(dEdx_vec, dEdx_val): the value of dEdx_val on return, val
\* being its value at the call.
FinddEdxLength(cut, vec, val) ==
  IF cut > CutDisabledAbove THEN vec
  ELSE IF Len(vec) < 4 THEN vec
  ELSE Scan(cut, vec, UpperBound(cut, vec), ScanStart,
            val \o <<vec[1], vec[2], vec[3]>>)

InitTrim ==
  /\ fdEdxCut \in dEdxCuts
  /\ dEdx_vec \in SeqsUpTo(dEdxValues, MaxdEdx)
  /\ dEdx_val = <<>>
  /\ trimPc = "start"
  /\ IdleOrg /\ IdleOrd /\ IdleCalc /\ IdleAlg

FinddEdxLengthCall ==
  /\ trimPc = "start"
  /\ dEdx_val' = FinddEdxLength(fdEdxCut, dEdx_vec, dEdx_val)
  /\ trimPc' = "done"
  /\ UNCHANGED <<fdEdxCut, dEdx_vec, orgVars, ordVars, calcVars, algVars>>

NextTrim == FinddEdxLengthCall

SpecTrim == InitTrim /\ [][NextTrim]_vars

CutActive == fdEdxCut <= 10

\* C3: with the cut active and at least 4 values, all strictly below the cut,
\* the output sequence equals the input sequence.
C3_AllBelowPassthrough ==
  (/\ trimPc = "done"
   /\ CutActive
   /\ Len(dEdx_vec) >= 4
   /\ \A i \in DOMAIN dEdx_vec : dEdx_vec[i] < fdEdxCut) =>
    dEdx_val = dEdx_vec

\* C4: with the cut active, the first three values below the cut and every
\* later value (at least one) above it, the output is exactly the first three
\* input values.
C4_TailTrimmed ==
  (/\ trimPc = "done"
   /\ CutActive
   /\ Len(dEdx_vec) >= 4
   /\ \A i \in 1..3 : dEdx_vec[i] < fdEdxCut
   /\ \A i \in 4..Len(dEdx_vec) : dEdx_vec[i] > fdEdxCut) =>
    dEdx_val = SubSeq(dEdx_vec, 1, 3)

(***************************************************************************)
(* The ordering operations: OrderShowerHits, OrderShowerSpacePoints (by    *)
(* projection, and by distance from a vertex) and                          *)
(* OrderShowerSpacePointsPerpendicular.                                    *)
(***************************************************************************)
Dot3(a, b) == a[1] * b[1] + a[2] * b[2] + a[3] * b[3]
Sub3(a, b) == <<a[1] - b[1], a[2] - b[2], a[3] - b[3]>>
Scale3(k, a) == <<k * a[1], k * a[2], k * a[3]>>
\* R() squared
Mag2(a) == Dot3(a, a)
Dot2(a, b) == a[1] * b[1] + a[2] * b[2]
Sub2(a, b) == <<a[1] - b[1], a[2] - b[2]>>
Abs(x) == IF x < 0 THEN -x ELSE x

\* An art::Ptr<recob::SpacePoint>: the record stands for the Ptr, and two
\* spacepoints are the same Ptr exactly when their positions are equal.
SpacePointPool ==
  {[pos |-> <<x, y, 0>>] : x \in 0..2, y \in 0..1} \cup {[pos |-> <<1, 0, 1>>]}

\* The hits OrderShowerHits reads: plane and wire of the WireID, and PeakTime.
OrdHitPool ==
  {[plane |-> p, wire |-> w, peakTime |-> t] : p \in {0, 1}, w \in 0..2, t \in 0..1}

OrdVertices == {<<0, 0, 0>>, <<1, 1, 0>>}
OrdDirections == {<<1, 0, 0>>, <<0, 1, 0>>, <<0, -1, 0>>, <<1, 1, 0>>, <<0, 0, 1>>}

\* The geometry and detector-properties services: plane 0 measures along y with
\* pitch 1, plane 1 along z with pitch 2; a tick is one unit of x.
WirePitch(plane) == IF plane = 0 THEN 1 ELSE 2
GetIncreasingWireDirection(plane) == IF plane = 0 THEN <<0, 1, 0>> ELSE <<0, 0, 1>>
ConvertTicksToX(tick, plane) == tick + plane

\* An insertion that leaves a key already in the map with its old element, as
\* std::map::insert does.
MapInsert(m, k, v) == [x \in DOMAIN m \cup {k} |-> IF x \in DOMAIN m THEN m[x] ELSE v]

\* std::map<double, Ptr>::operator[] followed by assignment: a key already in
\* the map keeps its place and takes the new element.
MapAssign(m, k, v) == [x \in DOMAIN m \cup {k} |-> IF x = k THEN v ELSE m[x]]

\* Iteration over a std::map: the mapped values in ascending key order.
RECURSIVE MapValues(_, _)
MapValues(m, keys) ==
  IF keys = {} THEN <<>>
  ELSE LET k == CHOOSE x \in keys : \A y \in keys : x <= y
       IN  <<m[k]>> \o MapValues(m, keys \ {k})

SpacePointProjection(sp, vertex, direction) ==
  LET pos == Sub3(sp.pos, vertex) IN Dot3(pos, direction)

\* The four-argument overload; the length is kept squared.
SpacePointPerpendicularProj(sp, vertex, direction, proj) ==
  LET pos == Sub3(sp.pos, vertex)
  IN  Mag2(Sub3(pos, Scale3(proj, direction)))

SpacePointPerpendicular(sp, vertex, direction) ==
  SpacePointPerpendicularProj(sp, vertex, direction,
                              SpacePointProjection(sp, vertex, direction))

\* (sp->position() - vertex).R(), squared
SpacePointDistance(sp, vertex) == Mag2(Sub3(sp.pos, vertex))

\* The loop "for (auto const& sp : showersps) OrderedSpacePoints[key] = sp",
\* keys[i] being the key computed for showersps[i].
RECURSIVE FillMap(_, _, _, _)
FillMap(showersps, keys, i, m) ==
  IF i > Len(showersps) THEN m
  ELSE FillMap(showersps, keys, i + 1, MapAssign(m, keys[i], showersps[i]))

\* A refill that forgets showersps.clear().
RefillNoClear(showersps, keys) ==
  LET OrderedSpacePoints == FillMap(showersps, keys, 1, <<>>)
  IN  showersps \o MapValues(OrderedSpacePoints, DOMAIN OrderedSpacePoints)

\* showersps.clear() and the push_back loop over the map
Refill(showersps, keys) ==
  LET OrderedSpacePoints == FillMap(showersps, keys, 1, <<>>)
  IN  MapValues(OrderedSpacePoints, DOMAIN OrderedSpacePoints)

OrderShowerSpacePointsPerpendicular(showersps, vertex, direction) ==
  Refill(showersps,
         [i \in DOMAIN showersps |-> SpacePointPerpendicular(showersps[i], vertex, direction)])

OrderShowerSpacePoints(showersps, vertex, direction) ==
  Refill(showersps,
         [i \in DOMAIN showersps |-> SpacePointProjection(showersps[i], vertex, direction)])

OrderShowerSpacePointsFromVertex(showersps, vertex) ==
  Refill(showersps,
         [i \in DOMAIN showersps |-> SpacePointDistance(showersps[i], vertex)])

HitCoordinates(hit) ==
  <<hit.wire * WirePitch(hit.plane), ConvertTicksToX(hit.peakTime, hit.plane)>>

\* WireCoordinate(ShowerStartPosition, plane) * pitch is the start position's
\* coordinate along the plane's wire-increasing direction.
Shower2DStartPosition(ShowerStartPosition, plane) ==
  <<Dot3(ShowerStartPosition, GetIncreasingWireDirection(plane)), ShowerStartPosition[1]>>

\* The 2D direction before Unit().  Unit() divides by the positive length, or
\* leaves the zero vector as it is, so the projections onto it keep their order,
\* their sign and their ties; the model projects onto the unscaled vector.
Shower2DDirection(ShowerDirection, plane) ==
  <<Dot3(ShowerDirection, GetIncreasingWireDirection(plane)), ShowerDirection[1]>>

\* pos * Shower2DDirection for a hit
HitProjection(hit, ShowerStartPosition, ShowerDirection, plane) ==
  Dot2(Sub2(HitCoordinates(hit), Shower2DStartPosition(ShowerStartPosition, plane)),
       Shower2DDirection(ShowerDirection, plane))

\* A loop over hits that passes over a hit of another plane and goes on.
RECURSIVE FillHitMapSkip(_, _, _, _, _)
FillHitMapSkip(hitlist, i, ShowerStartPosition, ShowerDirection, m) ==
  LET plane == hitlist[1].plane
  IN  IF i > Len(hitlist) THEN m
      ELSE FillHitMapSkip(hitlist, i + 1, ShowerStartPosition, ShowerDirection,
             IF hitlist[i].plane # plane THEN m
             ELSE MapAssign(m, HitProjection(hitlist[i], ShowerStartPosition,
                                             ShowerDirection, plane),
                            hitlist[i]))

\* The loop over hits, left at the first hit of another plane.
RECURSIVE FillHitMap(_, _, _, _, _)
FillHitMap(hitlist, i, ShowerStartPosition, ShowerDirection, m) ==
  LET plane == hitlist[1].plane
  IN  IF i > Len(hitlist) \/ hitlist[i].plane # plane THEN m
      ELSE FillHitMap(hitlist, i + 1, ShowerStartPosition, ShowerDirection,
             MapAssign(m, HitProjection(hitlist[i], ShowerStartPosition,
                                        ShowerDirection, plane),
                       hitlist[i]))

Reverse(s) == [i \in DOMAIN s |-> s[Len(s) + 1 - i]]

\* A test on the projections themselves, without std::abs.
WrongOrderSigned(showerHits, ShowerStartPosition, ShowerDirection, plane) ==
  LET frontproj == HitProjection(showerHits[1], ShowerStartPosition, ShowerDirection, plane)
      backproj == HitProjection(showerHits[Len(showerHits)], ShowerStartPosition,
                                ShowerDirection, plane)
  IN  backproj < frontproj

\* std::abs(backproj) < std::abs(frontproj), on the sorted hits
WrongOrder(showerHits, ShowerStartPosition, ShowerDirection, plane) ==
  LET frontproj == HitProjection(showerHits[1], ShowerStartPosition, ShowerDirection, plane)
      backproj == HitProjection(showerHits[Len(showerHits)], ShowerStartPosition,
                                ShowerDirection, plane)
  IN  Abs(backproj) < Abs(frontproj)

\* OrderShowerHits on a non-empty list (hits.front() of an empty list is
\* undefined): the value of hits on return.
OrderShowerHits(hitlist, ShowerStartPosition, ShowerDirection) ==
  LET plane == hitlist[1].plane
      OrderedHits == FillHitMap(hitlist, 1, ShowerStartPosition, ShowerDirection, <<>>)
      showerHits == MapValues(OrderedHits, DOMAIN OrderedHits)
  IN  IF WrongOrder(showerHits, ShowerStartPosition, ShowerDirection, plane)
        THEN Reverse(showerHits)
        ELSE showerHits

InitOrder ==
  /\ ordMode \in {"hits", "sps"}
  /\ ordHits \in IF ordMode = "hits" THEN SeqsUpTo(OrdHitPool, MaxOrd) \ {<<>>} ELSE {<<>>}
  /\ ordSps \in IF ordMode = "sps" THEN SeqsUpTo(SpacePointPool, MaxOrd) ELSE {<<>>}
  /\ ordVertex \in OrdVertices
  /\ ordDirection \in OrdDirections
  /\ ordInput = IF ordMode = "hits" THEN ordHits ELSE ordSps
  /\ ordOps = <<>>
  /\ ordPrev = <<>>
  /\ IdleOrg /\ IdleTrim /\ IdleCalc /\ IdleAlg

OrderShowerHitsCall ==
  /\ ordMode = "hits"
  /\ Len(ordOps) < MaxCalls
  /\ ordHits' = OrderShowerHits(ordHits, ordVertex, ordDirection)
  /\ ordPrev' = ordHits
  /\ ordOps' = Append(ordOps, "hits")
  /\ UNCHANGED <<ordMode, ordSps, ordVertex, ordDirection, ordInput, orgVars, trimVars,
               calcVars, algVars>>

OrderShowerSpacePointsPerpendicularCall ==
  /\ ordMode = "sps"
  /\ Len(ordOps) < MaxCalls
  /\ ordSps' = OrderShowerSpacePointsPerpendicular(ordSps, ordVertex, ordDirection)
  /\ ordPrev' = ordSps
  /\ ordOps' = Append(ordOps, "perpendicular")
  /\ UNCHANGED <<ordMode, ordHits, ordVertex, ordDirection, ordInput, orgVars, trimVars,
               calcVars, algVars>>

OrderShowerSpacePointsCall ==
  /\ ordMode = "sps"
  /\ Len(ordOps) < MaxCalls
  /\ ordSps' = OrderShowerSpacePoints(ordSps, ordVertex, ordDirection)
  /\ ordPrev' = ordSps
  /\ ordOps' = Append(ordOps, "projection")
  /\ UNCHANGED <<ordMode, ordHits, ordVertex, ordDirection, ordInput, orgVars, trimVars,
               calcVars, algVars>>

OrderShowerSpacePointsFromVertexCall ==
  /\ ordMode = "sps"
  /\ Len(ordOps) < MaxCalls
  /\ ordSps' = OrderShowerSpacePointsFromVertex(ordSps, ordVertex)
  /\ ordPrev' = ordSps
  /\ ordOps' = Append(ordOps, "distance")
  /\ UNCHANGED <<ordMode, ordHits, ordVertex, ordDirection, ordInput, orgVars, trimVars,
               calcVars, algVars>>

NextOrder ==
  \/ OrderShowerHitsCall
  \/ OrderShowerSpacePointsPerpendicularCall
  \/ OrderShowerSpacePointsCall
  \/ OrderShowerSpacePointsFromVertexCall

SpecOrder == InitOrder /\ [][NextOrder]_vars

\* The collection being ordered, as it is now.
OrdCurrent == IF ordMode = "hits" THEN ordHits ELSE ordSps

LastOp == ordOps[Len(ordOps)]

\* The latest operation was applied to the output of the same operation.
AppliedToOwnOutput ==
  /\ Len(ordOps) >= 2
  /\ ordOps[Len(ordOps) - 1] = LastOp

\* C9: every ordering operation is idempotent: applied with the same vertex and
\* direction to its own output, it returns that output unchanged.
C9_OrderingIdempotent == AppliedToOwnOutput => OrdCurrent = ordPrev

OrdHitProjection(hit) ==
  HitProjection(hit, ordVertex, ordDirection, ordInput[1].plane)

\* C9 witness: OrderShowerHits applied twice, where the first application
\* dropped hits and left the remaining ones in descending projection (reversed).
C9_Witness ==
  /\ ordMode = "hits"
  /\ ordOps = <<"hits", "hits">>
  /\ Len(ordHits) >= 2
  /\ Len(ordHits) < Len(ordInput)
  /\ OrdHitProjection(ordPrev[1]) > OrdHitProjection(ordPrev[2])
  /\ ordHits = ordPrev

\* The ordering key of the latest spacepoint ordering (lengths squared).
OrdKey(sp) ==
  CASE LastOp = "projection" -> SpacePointProjection(sp, ordVertex, ordDirection)
    [] LastOp = "perpendicular" -> SpacePointPerpendicular(sp, ordVertex, ordDirection)
    [] LastOp = "distance" -> SpacePointDistance(sp, ordVertex)

\* C10: after a spacepoint ordering the output is strictly ascending in the
\* key, holds only input elements, holds one element per key value of the
\* input, and for each key value holds the input's last element of that key.
C10_AscendingOnePerKeyLastWins ==
  (ordMode = "sps" /\ ordOps # <<>>) =>
    /\ \A i, j \in DOMAIN ordSps : i < j => OrdKey(ordSps[i]) < OrdKey(ordSps[j])
    /\ \A i \in DOMAIN ordSps : ordSps[i] \in Range(ordPrev)
    /\ {OrdKey(ordSps[i]) : i \in DOMAIN ordSps} = {OrdKey(ordPrev[j]) : j \in DOMAIN ordPrev}
    /\ Len(ordSps) = Cardinality({OrdKey(ordPrev[j]) : j \in DOMAIN ordPrev})
    /\ \A i \in DOMAIN ordSps :
         LET same == {j \in DOMAIN ordPrev : OrdKey(ordPrev[j]) = OrdKey(ordSps[i])}
         IN  ordSps[i] = ordPrev[CHOOSE j \in same : \A k \in same : k <= j]

\* C10 witness: three spacepoints, the first and the last different and of equal
\* key; the last one survives and the first one is gone.
C10_Witness ==
  /\ ordMode = "sps"
  /\ Len(ordOps) = 1
  /\ Len(ordPrev) = 3
  /\ Len(ordSps) = 2
  /\ ordPrev[1] # ordPrev[3]
  /\ OrdKey(ordPrev[1]) = OrdKey(ordPrev[3])
  /\ ordPrev[3] \in Range(ordSps)
  /\ ordPrev[1] \notin Range(ordSps)

\* The longest prefix of hitlist on the plane of its first hit.
LeadingRun(hitlist) ==
  LET other == {i \in DOMAIN hitlist : hitlist[i].plane # hitlist[1].plane}
      stop == IF other = {} THEN Len(hitlist) + 1
              ELSE CHOOSE i \in other : \A j \in other : i <= j
  IN  SubSeq(hitlist, 1, stop - 1)

\* C11: after OrderShowerHits every output hit is on the plane of the first
\* input hit and is one of the input's leading run of hits on that plane (the
\* hits before the first hit of another plane).
C11_LeadingRunOnly ==
  (ordMode = "hits" /\ ordOps # <<>>) =>
    \A i \in DOMAIN ordHits :
      /\ ordHits[i].plane = ordPrev[1].plane
      /\ ordHits[i] \in Range(LeadingRun(ordPrev))

\* C11 witness: a hit of another plane stands between two hits of the first
\* plane, and the later one is absent from the output.
C11_Witness ==
  /\ ordMode = "hits"
  /\ Len(ordOps) = 1
  /\ Len(ordPrev) = 3
  /\ ordPrev[2].plane # ordPrev[1].plane
  /\ ordPrev[3].plane = ordPrev[1].plane
  /\ ordPrev[3] \notin Range(ordHits)
  /\ ordHits # <<>>

(***************************************************************************)
(* ShowerTrajPointdEdx::CalculateElement                                   *)
(*                                                                         *)
(* The call is followed position by position: the checks on entry, one     *)
(* step per spacepoint of tracksps, the choice of the best plane and the   *)
(* storing of the outputs.  The element store keeps the number of initial  *)
(* track spacepoints; each spacepoint is drawn as the loop reaches it.     *)
(* A dE/dx value reported for a plane is kept as <<numerator, divisor>>.   *)
(***************************************************************************)
\* fcl parameters: MinDistCutOff and MaxDist in wires, dEdxTrackLength in cm
fMinDistCutOff == 1
fMaxDist == 2
fdEdxTrackLength == 6
fMinAngleToWire == 1
fShapingTime == 2

\* fGeom->MaxPlanes(), and the planes fGeom->Iterate<geo::PlaneID>() visits
MaxPlanes == 3
PlaneIndices == 0..(MaxPlanes - 1)

fShowerStartPositionInputLabel == "ShowerStartPosition"
fInitialTrackSpacePointsInputLabel == "InitialTrackSpacePoints"
fInitialTrackInputLabel == "InitialTrack"
fInitialTrackHitsInputLabel == "InitialTrackHits"
fShowerdEdxOutputLabel == "ShowerdEdx"
fShowerBestPlaneOutputLabel == "ShowerBestPlane"
fShowerdEdxVecOutputLabel == "ShowerdEdxVec"

RequiredLabels ==
  {fShowerStartPositionInputLabel, fInitialTrackSpacePointsInputLabel,
   fInitialTrackInputLabel}
OutputLabels ==
  {fShowerdEdxOutputLabel, fShowerBestPlaneOutputLabel, fShowerdEdxVecOutputLabel}

Sq(x) == x * x

CalcHit(k, p, t, w, q) ==
  [key |-> k, plane |-> p, tpc |-> t, wire |-> w, startTick |-> 0, endTick |-> 5,
   integral |-> q]

\* Two hits of one snippet on plane 0, two hits on plane 1, a hit in another
\* TPC, and a hit for the spacepoints the geometric cuts are tried on.
hitA1  == CalcHit(0, 0, 0, 1, 2)
hitA10 == CalcHit(1, 0, 0, 1, 20)
hitB   == CalcHit(0, 1, 0, 1, 4)
hitC   == CalcHit(0, 1, 0, 2, -2)
hitT   == CalcHit(0, 0, 1, 3, 2)
hitD   == CalcHit(0, 0, 0, 4, 2)

\* The element fInitialTrackHitsInputLabel: hitC is not among the track's hits.
InitialTrackHits == <<hitA1, hitA10, hitB, hitT, hitD>>

\* The spacepoints of the initial track with the hits fmsp associates to them.
CalcSpacePointPool ==
  {[pos |-> <<2, 0, 0>>, hits |-> <<hitA1>>],
   [pos |-> <<2, 0, 0>>, hits |-> <<hitA10, hitB>>],
   [pos |-> <<3, 0, 0>>, hits |-> <<hitB>>],
   [pos |-> <<2, 0, 0>>, hits |-> <<hitC>>],
   [pos |-> <<2, 0, 0>>, hits |-> <<>>],
   [pos |-> <<2, 0, 0>>, hits |-> <<hitT>>],
   [pos |-> <<0, 0, 0>>, hits |-> <<hitD>>],
   [pos |-> <<4, 0, 0>>, hits |-> <<hitD>>],
   [pos |-> <<5, 0, 0>>, hits |-> <<hitD>>],
   [pos |-> <<7, 0, 0>>, hits |-> <<hitD>>],
   [pos |-> <<20, 0, 0>>, hits |-> <<hitD>>]}

\* A trajectory point: its location, its NoPoint flag, and the values the
\* geometry gives for its direction: angleToWire is
\* |pi/2 - Angle(TrajDirectionYZ, PlaneDirection)|, time_taken the drift time
\* across one wire pitch, trackpitch the 3D pitch.
TrajPoint(x, flag, a, t) ==
  [pos |-> <<x, 0, 0>>, NoPoint |-> flag, angleToWire |-> a, time_taken |-> t,
   trackpitch |-> 1]

\* The element fInitialTrackInputLabel.
InitialTrack ==
  <<TrajPoint(0, FALSE, 3, 1), TrajPoint(2, FALSE, 3, 1), TrajPoint(3, TRUE, 3, 1),
    TrajPoint(4, FALSE, 0, 1), TrajPoint(5, FALSE, 3, 5), TrajPoint(7, FALSE, 3, 1)>>

ShowerStartPosition == <<0, 0, 0>>

\* fGeom->FindTPCAtPosition(ShowerStartPosition)
vtxTPC == 0

\* "unsigned int index = 999" and "double MinDist = 999"
NoIndex == 999
MinDistInit == 999

\* One iteration of the loop over the trajectory points, at 0-based index
\* traj: st is [index, MinDist2] (lengths squared).
TrajectoryStep(track, pos, wirepitch, traj, st) ==
  LET pt == track[traj + 1]
      dist2 == Mag2(Sub3(pos, pt.pos))
  IN  IF ~pt.NoPoint /\ dist2 < st.MinDist2 /\ dist2 < Sq(fMaxDist * wirepitch)
        THEN [index |-> traj, MinDist2 |-> dist2]
        ELSE st

\* The iterations from <= traj < to, in order: the first half, then the
\* second half from the state the first half left.  That state is compared
\* with st before the second half starts, so that the halves are evaluated
\* one after the other and the depth of evaluation stays logarithmic in the
\* number of trajectory points.
RECURSIVE TrajectoryLoop(_, _, _, _, _, _)
TrajectoryLoop(track, pos, wirepitch, from, to, st) ==
  IF from >= to THEN st
  ELSE IF to = from + 1 THEN TrajectoryStep(track, pos, wirepitch, from, st)
  ELSE LET mid == (from + to) \div 2
           first == TrajectoryLoop(track, pos, wirepitch, from, mid, st)
       IN  IF first = st
             THEN TrajectoryLoop(track, pos, wirepitch, mid, to, st)
             ELSE TrajectoryLoop(track, pos, wirepitch, mid, to, first)

\* The loop over the trajectory points from 0-based index traj on: the index
\* it leaves in "index".
ClosestTrajectoryPoint(track, pos, wirepitch, traj, index, MinDist2) ==
  TrajectoryLoop(track, pos, wirepitch, traj, Len(track),
                 [index |-> index, MinDist2 |-> MinDist2]).index

\* The space charge service's calibrated offsets stretch one pitch by this much.
CalPosOffsetStretch == 1

\* LArPandoraShowerAlg::SCECorrectPitch: whether it throws, and what it returns
SCECorrectPitchThrows(enabled) == ~enabled
SCECorrectPitch(pitch) == pitch + CalPosOffsetStretch

\* The calorimetry service's conversion of dQ/dx to dE/dx, at the nominal
\* field (SCECorrectEField is not configured on).
dEdx_AREA(dQdx) == 2 * dQdx

RECURSIVE SumIntegrals(_, _)
SumIntegrals(hitlist, i) ==
  IF i > Len(hitlist) THEN 0 ELSE hitlist[i].integral + SumIntegrals(hitlist, i + 1)

\* A charge that leaves the secondaries out.
HitChargeFirstOnly(hit, hitSnippets, sumSnippets) == hit.integral

\* The charge of a spacepoint's hit: its integral, plus its secondaries' when
\* snippets are summed.
HitCharge(hit, hitSnippets, sumSnippets) ==
  hit.integral + (IF sumSnippets THEN SumIntegrals(hitSnippets[hit], 1) ELSE 0)

\* "if (index == 999) { continue; }"
NoMatch(index) == index = NoIndex

\* A continue of the loop over tracksps, and the test it was taken at.
Skip(at) == [kind |-> "skip", at |-> at]

\* The body of the loop over tracksps for one spacepoint: a skip for every
\* continue, "throw" when SCECorrectPitch throws (after num_hits is
\* incremented), else "accept" with the plane and the dE/dx pushed.
SpacePointVerdict(sp, track, hitSnippets, sumSnippets, cutStart, corrPitch, sceEnabled) ==
  IF sp.hits = <<>> THEN Skip("no hit")
  ELSE
  LET hit == sp.hits[1]
      wirepitch == WirePitch(hit.plane)
      dist_from_start2 == Mag2(Sub3(sp.pos, ShowerStartPosition))
      index == ClosestTrajectoryPoint(track, sp.pos, wirepitch, 0, NoIndex,
                                      Sq(MinDistInit))
  IN
  IF sumSnippets /\ hit \notin DOMAIN hitSnippets THEN Skip("snippet")
  ELSE IF hit.tpc # vtxTPC THEN Skip("tpc")
  ELSE IF cutStart /\ dist_from_start2 < Sq(fMinDistCutOff * wirepitch)
    THEN Skip("start cut")
  ELSE IF cutStart /\ dist_from_start2 > Sq(fdEdxTrackLength) THEN Skip("start cut")
  ELSE IF NoMatch(index) THEN Skip("matching")
  ELSE
  LET TrajPoint_ == track[index + 1]
      fromStart2 == Mag2(Sub3(TrajPoint_.pos, track[1].pos))
      trackpitch == IF corrPitch THEN SCECorrectPitch(TrajPoint_.trackpitch)
                    ELSE TrajPoint_.trackpitch
      dQdx == HitCharge(hit, hitSnippets, sumSnippets) \div trackpitch
  IN
  IF fromStart2 = 0 THEN Skip("trajectory")
  ELSE IF Mag2(Sub3(TrajPoint_.pos, ShowerStartPosition)) = 0 THEN Skip("trajectory")
  ELSE IF fromStart2 < Sq(fMinDistCutOff * wirepitch) THEN Skip("trajectory")
  ELSE IF TrajPoint_.angleToWire < fMinAngleToWire THEN Skip("trajectory")
  ELSE IF fShapingTime < TrajPoint_.time_taken THEN Skip("trajectory")
  ELSE IF fromStart2 > Sq(fdEdxTrackLength) THEN Skip("trajectory")
  ELSE IF corrPitch /\ SCECorrectPitchThrows(sceEnabled)
    THEN [kind |-> "throw", at |-> "pitch", plane |-> hit.plane]
  ELSE [kind |-> "accept", at |-> "", plane |-> hit.plane, dEdx |-> dEdx_AREA(dQdx)]

\* "int best_plane = -std::numeric_limits<int>::max()"
NoBestPlane == -2147483647

\* A selection that also takes a plane whose count equals the maximum so far.
RECURSIVE BestPlaneLoopGe(_, _, _, _)
BestPlaneLoopGe(numHits, plane, best_plane, max_hits) ==
  IF plane >= MaxPlanes THEN best_plane
  ELSE IF numHits[plane] >= max_hits
    THEN BestPlaneLoopGe(numHits, plane + 1, plane, numHits[plane])
    ELSE BestPlaneLoopGe(numHits, plane + 1, best_plane, max_hits)

\* The loop over num_hits in ascending plane order, from plane on.
RECURSIVE BestPlaneLoop(_, _, _, _)
BestPlaneLoop(numHits, plane, best_plane, max_hits) ==
  IF plane >= MaxPlanes THEN best_plane
  ELSE IF numHits[plane] > max_hits
    THEN BestPlaneLoop(numHits, plane + 1, plane, numHits[plane])
    ELSE BestPlaneLoop(numHits, plane + 1, best_plane, max_hits)

BestPlane(numHits) == BestPlaneLoop(numHits, 0, NoBestPlane, 0)

\* The value pushed for a plane without trimmed values
Sentinel == -999

\* The physical range of the mean: values > 10 or < 0 are skipped
MeanUpper == 10
MeanLower == 0

RECURSIVE SumInRange(_, _)
SumInRange(values, i) ==
  IF i > Len(values) THEN 0
  ELSE (IF values[i] > MeanUpper \/ values[i] < MeanLower THEN 0 ELSE values[i])
       + SumInRange(values, i + 1)

\* "(float)(dEdx_plane.second).size()"
MeanDivisor(values) == Len(values)

\* dEdx_mean / size, as <<numerator, divisor>>
MeanValue(values) == <<SumInRange(values, 1), MeanDivisor(values)>>

\* TMath::Median: the middle value of the sorted values, the mean of the two
\* middle ones for an even count.
MedianValue(values) ==
  LET sorted == SortSeq(values, LAMBDA a, b : a < b)
      n == Len(values)
  IN  IF n % 2 = 1 THEN <<sorted[(n + 1) \div 2], 1>>
      ELSE <<sorted[n \div 2] + sorted[n \div 2 + 1], 2>>

\* dEdx_vec_cut: FinddEdxLength on every plane's values
TrimAll(cut, dEdxVec) ==
  [plane \in PlaneIndices |-> FinddEdxLength(cut, dEdxVec[plane], <<>>)]

\* The loop over dEdx_vec_cut from plane on: dEdx_val and dEdx_valErr.
RECURSIVE Aggregate(_, _, _, _)
Aggregate(dEdx_vec_cut, useMedian, plane, out) ==
  IF plane >= MaxPlanes THEN out
  ELSE LET values == dEdx_vec_cut[plane]
       IN  Aggregate(dEdx_vec_cut, useMedian, plane + 1,
             IF values = <<>>
               THEN [val |-> Append(out.val, <<Sentinel, 1>>),
                     err |-> Append(out.err, <<Sentinel, 1>>)]
             ELSE IF useMedian
               THEN [val |-> Append(out.val, MedianValue(values)), err |-> out.err]
             ELSE   [val |-> Append(out.val, MeanValue(values)), err |-> out.err])

\* ShowerEleHolder.SetElement
SetElement(holder, label, value) ==
  [l \in DOMAIN holder \cup {label} |-> IF l = label THEN value ELSE holder[l]]

InitCalc ==
  /\ fUseMedian \in BOOLEAN
  /\ fSumHitSnippets \in BOOLEAN
  /\ fCutStartPosition \in BOOLEAN
  /\ fSCECorrectPitch \in BOOLEAN
  /\ EnableCalSpatialSCE \in BOOLEAN
  /\ fdEdxCut \in dEdxCuts
  /\ \E present \in SUBSET RequiredLabels, n \in 0..MaxSps :
       ShowerEleHolder =
         [l \in present \cup {fInitialTrackHitsInputLabel} |->
            CASE l = fShowerStartPositionInputLabel -> ShowerStartPosition
              [] l = fInitialTrackSpacePointsInputLabel -> [size |-> n]
              [] l = fInitialTrackInputLabel -> InitialTrack
              [] l = fInitialTrackHitsInputLabel -> InitialTrackHits]
  /\ calcPc = "start"
  /\ calcRet = "none"
  /\ spLeft = 0
  /\ num_hits = <<>>
  /\ calc_dEdx_vec = <<>>
  /\ dEdx_vec = <<>> /\ dEdx_val = <<>> /\ trimPc = "idle"
  /\ IdleOrg /\ IdleOrd /\ IdleAlg

CheckElement(holder, label) == label \in DOMAIN holder

calcConfig ==
  <<fUseMedian, fSumHitSnippets, fCutStartPosition, fSCECorrectPitch,
    EnableCalSpatialSCE>>
notCalc == <<orgVars, trimVars, ordVars, algVars>>

\* A return before the loop that leaves a best plane in the store.
EarlyReturnStoring(code) ==
  /\ calcPc' = "done"
  /\ calcRet' = code
  /\ ShowerEleHolder' = SetElement(ShowerEleHolder, fShowerBestPlaneOutputLabel, NoBestPlane)
  /\ UNCHANGED <<calcConfig, spLeft, num_hits, calc_dEdx_vec, notCalc>>

\* A return before the loop: nothing but the return code changes.
EarlyReturn(code) ==
  /\ calcPc' = "done"
  /\ calcRet' = code
  /\ UNCHANGED <<ShowerEleHolder, calcConfig, spLeft, num_hits, calc_dEdx_vec, notCalc>>

CalcNoStartPosition ==
  /\ calcPc = "start"
  /\ ~CheckElement(ShowerEleHolder, fShowerStartPositionInputLabel)
  /\ EarlyReturn("return 1")

CalcNoSpacePoints ==
  /\ calcPc = "start"
  /\ CheckElement(ShowerEleHolder, fShowerStartPositionInputLabel)
  /\ ~CheckElement(ShowerEleHolder, fInitialTrackSpacePointsInputLabel)
  /\ EarlyReturn("return 1")

CalcNoTrack ==
  /\ calcPc = "start"
  /\ CheckElement(ShowerEleHolder, fShowerStartPositionInputLabel)
  /\ CheckElement(ShowerEleHolder, fInitialTrackSpacePointsInputLabel)
  /\ ~CheckElement(ShowerEleHolder, fInitialTrackInputLabel)
  /\ EarlyReturn("return 1")

AllPresent == \A l \in RequiredLabels : CheckElement(ShowerEleHolder, l)

\* The code returned for an empty tracksps
EmptyTrackReturn == "return 0"

CalcEmptyTrack ==
  /\ calcPc = "start"
  /\ AllPresent
  /\ ShowerEleHolder[fInitialTrackSpacePointsInputLabel].size = 0
  /\ EarlyReturn(EmptyTrackReturn)

CalcBegin ==
  /\ calcPc = "start"
  /\ AllPresent
  /\ ShowerEleHolder[fInitialTrackSpacePointsInputLabel].size > 0
  /\ calcPc' = "loop"
  /\ spLeft' = ShowerEleHolder[fInitialTrackSpacePointsInputLabel].size
  /\ num_hits' = [plane \in PlaneIndices |-> 0]
  /\ calc_dEdx_vec' = [plane \in PlaneIndices |-> <<>>]
  /\ UNCHANGED <<ShowerEleHolder, calcConfig, calcRet, notCalc>>

\* hitSnippets, as built before the loop
HitSnippets ==
  IF fSumHitSnippets
    THEN OrganizeHits(ShowerEleHolder[fInitialTrackHitsInputLabel])
    ELSE <<>>

Verdict(sp) ==
  SpacePointVerdict(sp, ShowerEleHolder[fInitialTrackInputLabel], HitSnippets,
                    fSumHitSnippets, fCutStartPosition, fSCECorrectPitch,
                    EnableCalSpatialSCE)

CalcSpacePointSkip ==
  /\ calcPc = "loop"
  /\ spLeft > 0
  /\ \E sp \in CalcSpacePointPool : Verdict(sp).kind = "skip"
  /\ spLeft' = spLeft - 1
  /\ UNCHANGED <<ShowerEleHolder, calcConfig, calcPc, calcRet, num_hits,
                 calc_dEdx_vec, notCalc>>

CalcSpacePointAccept ==
  /\ calcPc = "loop"
  /\ spLeft > 0
  /\ \E sp \in CalcSpacePointPool :
       LET v == Verdict(sp)
       IN  /\ v.kind = "accept"
           /\ num_hits' = [num_hits EXCEPT ![v.plane] = @ + 1]
           /\ calc_dEdx_vec' = [calc_dEdx_vec EXCEPT ![v.plane] = Append(@, v.dEdx)]
  /\ spLeft' = spLeft - 1
  /\ UNCHANGED <<ShowerEleHolder, calcConfig, calcPc, calcRet, notCalc>>

CalcSpacePointThrow ==
  /\ calcPc = "loop"
  /\ spLeft > 0
  /\ \E sp \in CalcSpacePointPool :
       LET v == Verdict(sp)
       IN  /\ v.kind = "throw"
           /\ num_hits' = [num_hits EXCEPT ![v.plane] = @ + 1]
  /\ calcPc' = "done"
  /\ calcRet' = "throw"
  /\ UNCHANGED <<ShowerEleHolder, calcConfig, spLeft, calc_dEdx_vec, notCalc>>

CalcLoopEnd ==
  /\ calcPc = "loop"
  /\ spLeft = 0
  /\ calcPc' = "select"
  /\ UNCHANGED <<ShowerEleHolder, calcConfig, calcRet, spLeft, num_hits,
                 calc_dEdx_vec, notCalc>>

CalcNoHits ==
  /\ calcPc = "select"
  /\ BestPlane(num_hits) < 0
  /\ calcPc' = "done"
  /\ calcRet' = "return 1"
  /\ UNCHANGED <<ShowerEleHolder, calcConfig, spLeft, num_hits, calc_dEdx_vec, notCalc>>

\* The three SetElement calls
StoreOutputs(holder, out, best_plane, dEdx_vec_cut) ==
  SetElement(
    SetElement(
      SetElement(holder, fShowerdEdxOutputLabel, out),
      fShowerBestPlaneOutputLabel, best_plane),
    fShowerdEdxVecOutputLabel, dEdx_vec_cut)

CalcStore ==
  /\ calcPc = "select"
  /\ BestPlane(num_hits) >= 0
  /\ LET dEdx_vec_cut == TrimAll(fdEdxCut, calc_dEdx_vec)
         out == Aggregate(dEdx_vec_cut, fUseMedian, 0, [val |-> <<>>, err |-> <<>>])
     IN  ShowerEleHolder' =
           StoreOutputs(ShowerEleHolder, out, BestPlane(num_hits), dEdx_vec_cut)
  /\ calcPc' = "done"
  /\ calcRet' = "return 0"
  /\ UNCHANGED <<calcConfig, spLeft, num_hits, calc_dEdx_vec, notCalc>>

NextCalc ==
  \/ CalcNoStartPosition
  \/ CalcNoSpacePoints
  \/ CalcNoTrack
  \/ CalcEmptyTrack
  \/ CalcBegin
  \/ CalcSpacePointSkip
  \/ CalcSpacePointAccept
  \/ CalcSpacePointThrow
  \/ CalcLoopEnd
  \/ CalcNoHits
  \/ CalcStore

SpecCalc == InitCalc /\ [][NextCalc]_vars

\* The call has ended with the outputs in the store.
Stored == calcPc = "done" /\ OutputLabels \subseteq DOMAIN ShowerEleHolder
NoneStored == OutputLabels \cap DOMAIN ShowerEleHolder = {}
InRange(v) == v >= 0 /\ v <= 10
InRangeIndices(values) == {i \in DOMAIN values : InRange(values[i])}
RECURSIVE SumOver(_, _)
SumOver(values, I) ==
  IF I = {} THEN 0
  ELSE LET i == CHOOSE j \in I : TRUE IN values[i] + SumOver(values, I \ {i})

\* C5: with UseMedian false, the value stored for a plane whose trimmed
\* sequence is non-empty is the sum of the trimmed values in [0, 10] divided by
\* the number of those values (stated where that number is not zero).
C5_MeanOfInRange ==
  (Stored /\ ~fUseMedian) =>
    \A plane \in PlaneIndices :
      LET values == ShowerEleHolder[fShowerdEdxVecOutputLabel][plane]
          value == ShowerEleHolder[fShowerdEdxOutputLabel].val[plane + 1]
          I == InRangeIndices(values)
      IN  (values # <<>> /\ I # {}) =>
            value[1] * Cardinality(I) = SumOver(values, I) * value[2]

\* The call went through the best-plane selection (it neither returned before
\* the loop nor threw in it).
SelectionDone == calcPc = "done" /\ num_hits # <<>> /\ calcRet # "throw"

C7_MissingInputSkips ==
  [][(calcPc = "start" /\ ~AllPresent) =>
       (calcPc' = "done" /\ calcRet' = "return 1" /\ ShowerEleHolder' = ShowerEleHolder)]_vars

\* C7 witness: the call has ended on a store that has the start position and
\* the spacepoints and lacks only the initial track.
C7_Witness ==
  /\ calcPc = "done"
  /\ calcRet = "return 1"
  /\ RequiredLabels \ DOMAIN ShowerEleHolder = {fInitialTrackInputLabel}
  /\ NoneStored

\* C8: a call on a store where the initial-track spacepoints are present and
\* empty ends with return code 1, the code of a missing input; so a return
\* code 0 comes with the three outputs stored.
C8_EmptyTrackSkips ==
  /\ (calcPc = "done" /\ AllPresent
      /\ ShowerEleHolder[fInitialTrackSpacePointsInputLabel].size = 0)
       => calcRet = "return 1"
  /\ (calcPc = "done" /\ calcRet = "return 0") => Stored

(***************************************************************************)
(* ShowerCentre                                                            *)
(*                                                                         *)
(* The three overloads: ShowerCentre(showersps), the charge-weighted       *)
(* overload that writes totalCharge, and the one that keeps its own.       *)
(***************************************************************************)
MaxCtr == 3           \* longest showersps handed to ShowerCentre

Sign(n) == IF n > 0 THEN 1 ELSE IF n < 0 THEN -1 ELSE 0

RECURSIVE GCD(_, _)
GCD(a, b) == IF b = 0 THEN a ELSE GCD(b, a % b)

\* n/d as a float: lowest terms, or the infinity or NaN a zero divisor gives
Norm(n, d) ==
  IF d = 0 THEN <<Sign(n), 0>>
  ELSE LET g == GCD(Abs(n), Abs(d))
       IN  <<(Sign(d) * n) \div g, Abs(d) \div g>>

FNum(k) == <<k, 1>>
FMul(a, b) == Norm(a[1] * b[1], a[2] * b[2])
FAdd(a, b) ==
  IF a[2] = 0 /\ b[2] = 0 THEN (IF a = b THEN a ELSE NaN)
  ELSE Norm(a[1] * b[2] + b[1] * a[2], a[2] * b[2])
\* 1 / a
FInv(a) ==
  IF a[1] > 0 THEN <<a[2], a[1]>>
  ELSE IF a[1] < 0 THEN Norm(-a[2], -a[1])
  ELSE IF a[2] = 0 THEN NaN ELSE <<1, 0>>
IsNumber(a) == a[2] > 0

\* A point or vector of floats
FPoint(pos) == <<FNum(pos[1]), FNum(pos[2]), FNum(pos[3])>>
FScale(a, v) == <<FMul(a, v[1]), FMul(a, v[2]), FMul(a, v[3])>>
FAdd3(u, v) == <<FAdd(u[1], v[1]), FAdd(u[2], v[2]), FAdd(u[3], v[3])>>
Origin == <<Zero, Zero, Zero>>

\* A hit as ShowerCentre reads it: Integral(), PeakTime() and whether
\* SignalType() is geo::kCollection.
CtrHit(q, t, c) == [integral |-> q, peakTime |-> t, collection |-> c]

\* Spacepoints with the hits fmh associates to them.
CtrSpacePointPool ==
  {[pos |-> <<0, 0, 0>>, hits |-> <<CtrHit(5, 0, TRUE)>>],
   [pos |-> <<2, 0, 0>>, hits |-> <<CtrHit(5, 0, TRUE)>>],
   [pos |-> <<4, 0, 0>>, hits |-> <<CtrHit(5, 0, TRUE)>>],
   [pos |-> <<4, 0, 0>>, hits |-> <<CtrHit(5, 1, TRUE)>>],
   [pos |-> <<4, 0, 0>>, hits |-> <<CtrHit(5, 0, FALSE)>>],
   [pos |-> <<4, 0, 0>>, hits |-> <<CtrHit(0, 0, TRUE)>>],
   [pos |-> <<2, 0, 0>>, hits |-> <<>>],
   [pos |-> <<2, 2, 0>>, hits |-> <<CtrHit(5, 0, FALSE), CtrHit(5, 0, TRUE)>>],
   [pos |-> <<0, 2, 2>>, hits |-> <<CtrHit(5, 0, FALSE), CtrHit(-5, 0, TRUE)>>]}

\* exp(sampling_rate * PeakTime / (ElectronLifetime * 1e3)), for a detector
\* where one tick of drift doubles the correction.
LifetimeCorrection(peakTime) == 2 ^ peakTime

\* hit->Integral() * lifetimecorrection
HitQ(hit) == hit.integral * LifetimeCorrection(hit.peakTime)

\* fUseCollectionOnly: the first collection hit's corrected charge, 0 without one
CollectionCharge(hits) ==
  LET coll == {i \in DOMAIN hits : hits[i].collection}
  IN  IF coll = {} THEN Zero
      ELSE FNum(HitQ(hits[CHOOSE i \in coll : \A j \in coll : i <= j]))

RECURSIVE SumQ(_, _, _)
SumQ(hits, I, power) ==
  IF I = {} THEN 0
  ELSE LET i == CHOOSE j \in I : TRUE
       IN  HitQ(hits[i]) ^ power + SumQ(hits, I \ {i}, power)

\* The square of rms for two hits or more, as a float:
\* (charge2 - charge * charge) / (hits.size() - 1).  Its root is NaN when
\* it is negative.
RmsSquared(hits) ==
  LET charge == SumQ(hits, DOMAIN hits, 1)
      charge2 == SumQ(hits, DOMAIN hits, 2)
  IN  Norm(charge2 - charge * charge, Len(hits) - 1)

\* The hits with mean - 2 * rms < Q < mean + 2 * rms, where mean =
\* charge / size and rms is 1 for a single hit.  A NaN rms makes both
\* comparisons false; the comparisons are made on squares.
WithinWindow(hits) ==
  LET size == Len(hits)
      charge == SumQ(hits, DOMAIN hits, 1)
      rms2 == RmsSquared(hits)
      within(i) ==
        IF size = 1 THEN TRUE
        ELSE /\ rms2[1] >= 0
             /\ (size * HitQ(hits[i]) - charge) ^ 2 * rms2[2] < 4 * size * size * rms2[1]
  IN  {i \in DOMAIN hits : within(i)}

\* !fUseCollectionOnly: the sum of the hits within the window, divided by
\* their number n ("charge /= n").
AveragedCharge(hits) ==
  LET used == WithinWindow(hits)
      n == Cardinality(used)
  IN  Norm(SumQ(hits, used, 1), n)

\* The charge of one spacepoint under the configured policy
PointCharge(sp, collectionOnly) ==
  IF collectionOnly THEN CollectionCharge(sp.hits) ELSE AveragedCharge(sp.hits)

\* The loop over showersps from i on: st is [chargePoint, totalCharge].
RECURSIVE CentreLoop(_, _, _, _)
CentreLoop(sps, collectionOnly, i, st) ==
  IF i > Len(sps) THEN st
  ELSE LET charge == PointCharge(sps[i], collectionOnly)
       IN  CentreLoop(sps, collectionOnly, i + 1,
             [chargePoint |-> FAdd3(st.chargePoint, FScale(charge, FPoint(sps[i].pos))),
              totalCharge |-> FAdd(st.totalCharge, charge)])

\* ShowerCentre(clockData, detProp, showersps, fmh, totalCharge): the point
\* returned and the value left in totalCharge, total being its value at the call.
ShowerCentreCharge(sps, collectionOnly, total) ==
  LET st == CentreLoop(sps, collectionOnly, 1,
                       [chargePoint |-> Origin, totalCharge |-> total])
      intotalcharge == FInv(st.totalCharge)
  IN  [centre |-> FScale(intotalcharge, st.chargePoint), totalCharge |-> st.totalCharge]

RECURSIVE SumPos(_, _)
SumPos(sps, i) ==
  IF i > Len(sps) THEN Origin ELSE FAdd3(FPoint(sps[i].pos), SumPos(sps, i + 1))

\* ShowerCentre(showersps)
ShowerCentre(sps) ==
  IF sps = <<>> THEN Origin
  ELSE FScale(FInv(FNum(Len(sps))), SumPos(sps, 1))

\* The values the caller's totalCharge may hold at the call
CallerTotals == {Zero, FNum(5)}

InitCentre ==
  /\ ctrSps \in SeqsUpTo(CtrSpacePointPool, MaxCtr)
  /\ fUseCollectionOnly \in BOOLEAN
  /\ totalCharge \in CallerTotals
  /\ ctrTotalAtCall = totalCharge
  /\ ctrRet = <<>>
  /\ ctrPlain = <<>>
  /\ ctrOps = {}
  /\ IdleGr /\ IdleSce /\ IdleVisit
  /\ IdleOrg /\ IdleTrim /\ IdleOrd /\ IdleCalc

notCtr == <<orgVars, trimVars, ordVars, calcVars, grVars, sceVars, visitVars>>

ShowerCentreCall ==
  /\ "plain" \notin ctrOps
  /\ ctrPlain' = ShowerCentre(ctrSps)
  /\ ctrOps' = ctrOps \cup {"plain"}
  /\ UNCHANGED <<ctrSps, fUseCollectionOnly, totalCharge, ctrTotalAtCall, ctrRet, notCtr>>

\* The overload with the totalCharge reference
ShowerCentreChargeCall ==
  /\ ctrOps \cap {"charge", "charge, own total"} = {}
  /\ LET r == ShowerCentreCharge(ctrSps, fUseCollectionOnly, totalCharge)
     IN  ctrRet' = r.centre /\ totalCharge' = r.totalCharge
  /\ ctrOps' = ctrOps \cup {"charge"}
  /\ UNCHANGED <<ctrSps, fUseCollectionOnly, ctrTotalAtCall, ctrPlain, notCtr>>

\* The overload without it: "float totalCharge = 0" and the call above
ShowerCentreOwnTotalCall ==
  /\ ctrOps \cap {"charge", "charge, own total"} = {}
  /\ ctrRet' = ShowerCentreCharge(ctrSps, fUseCollectionOnly, Zero).centre
  /\ ctrOps' = ctrOps \cup {"charge, own total"}
  /\ UNCHANGED <<ctrSps, fUseCollectionOnly, totalCharge, ctrTotalAtCall, ctrPlain, notCtr>>

NextCentre == ShowerCentreCall \/ ShowerCentreChargeCall \/ ShowerCentreOwnTotalCall

SpecCentre == InitCentre /\ [][NextCentre]_vars

\* The charge-weighted ShowerCentre has returned (either overload).
WeightedDone == ctrOps \cap {"charge", "charge, own total"} # {}

CtrPointCharge(i) == PointCharge(ctrSps[i], fUseCollectionOnly)

RECURSIVE SumPointCharges(_)
SumPointCharges(i) ==
  IF i > Len(ctrSps) THEN Zero ELSE FAdd(CtrPointCharge(i), SumPointCharges(i + 1))

\* C12: on a non-empty showersps whose spacepoints all get the same per-point
\* charge, the charge-weighted ShowerCentre returns the point
\* ShowerCentre(showersps) returns.
C12_EqualChargesPlainCentroid ==
  (/\ WeightedDone
   /\ "plain" \in ctrOps
   /\ ctrSps # <<>>
   /\ \A i \in DOMAIN ctrSps :
        IsNumber(CtrPointCharge(i)) /\ CtrPointCharge(i) = CtrPointCharge(1)) =>
    ctrRet = ctrPlain

\* N >= 2 spacepoints on the X axis at equal steps, each with one hit, all
\* hits of one integral.
EvenlySpacedOneHitEach ==
  /\ Len(ctrSps) >= 2
  /\ ctrSps[2].pos[1] # ctrSps[1].pos[1]
  /\ \A i \in DOMAIN ctrSps :
       /\ ctrSps[i].pos =
            <<ctrSps[1].pos[1] + (i - 1) * (ctrSps[2].pos[1] - ctrSps[1].pos[1]), 0, 0>>
       /\ Len(ctrSps[i].hits) = 1
       /\ ctrSps[i].hits[1].integral = ctrSps[1].hits[1].integral

\* C13: on N spacepoints evenly spaced along the X axis, each with one hit of
\* the same integral I, the charge-weighted ShowerCentre returns the midpoint
\* of the points and leaves N * I in totalCharge.
C13_EvenlySpacedMidpoint ==
  ("charge" \in ctrOps /\ EvenlySpacedOneHitEach) =>
    /\ ctrRet = <<Norm(ctrSps[1].pos[1] + ctrSps[Len(ctrSps)].pos[1], 2), Zero, Zero>>
    /\ totalCharge = FNum(Len(ctrSps) * ctrSps[1].hits[1].integral)

\* C14: the charge-weighted ShowerCentre leaves in totalCharge the sum of the
\* per-point charges of the given spacepoints, whatever totalCharge held at
\* the call.
C14_TotalIsSumOfPointCharges ==
  "charge" \in ctrOps => totalCharge = SumPointCharges(1)

\* The total charge the weighted call divided by.
CtrTotalUsed ==
  IF "charge" \in ctrOps THEN totalCharge ELSE SumPointCharges(1)

\* C15: when the total charge is zero the charge-weighted ShowerCentre returns
\* a point of three numbers (no NaN, no infinity).
C15_ZeroChargeNeutral ==
  (WeightedDone /\ CtrTotalUsed = Zero) =>
    \A k \in 1..3 : IsNumber(ctrRet[k])

(***************************************************************************)
(* RMSShowerGradient                                                       *)
(*                                                                         *)
(* The gradient is a quotient of sums of square roots; a returned gradient *)
(* is kept as its denominator and, per segment used, the segment index and *)
(* the square of its RMS as <<sum of perp^2, size - 1>>.                   *)
(***************************************************************************)
MaxGr == 4            \* longest sps handed to RMSShowerGradient
MaxSegments == 2      \* largest nSegments handed to it

GrSpacePointPool ==
  {[pos |-> <<0, 0, 0>>], [pos |-> <<1, 0, 0>>], [pos |-> <<2, 0, 0>>],
   [pos |-> <<2, 1, 0>>], [pos |-> <<0, 1, 0>>]}
GrCentres == {<<0, 0, 0>>, <<1, 1, 0>>}
GrDirections == {<<1, 0, 0>>, <<1, 1, 0>>, <<0, 0, 0>>}

\* The fewest points the gradient is computed for
MinGradientPoints == 3

\* std::round(a / b) for b > 0: to the nearest integer, halves away from zero
Round(a, b) == Sign(a) * ((2 * Abs(a) + b) \div (2 * b))

\* len_segment_map: segment index -> the squared perpendicular lengths pushed
\* (CalculateRMS squares them), built by the loop over sps from i on.
RECURSIVE SegmentLoop(_, _, _, _, _, _, _)
SegmentLoop(sps, centre, direction, nSeg, length, i, m) ==
  IF i > Len(sps) THEN m
  ELSE LET len == SpacePointProjection(sps[i], centre, direction)
           len_perp2 == SpacePointPerpendicularProj(sps[i], centre, direction, len)
           sg_len == Round(len * nSeg, length)
           old == IF sg_len \in DOMAIN m THEN m[sg_len] ELSE <<>>
       IN  SegmentLoop(sps, centre, direction, nSeg, length, i + 1,
             [k \in DOMAIN m \cup {sg_len} |->
                IF k = sg_len THEN Append(old, len_perp2) ELSE m[k]])

RECURSIVE SumSeq(_, _)
SumSeq(q, i) == IF i > Len(q) THEN 0 ELSE q[i] + SumSeq(q, i + 1)

\* CalculateRMS squared, for at least two values: sum / (size - 1)
CalculateRMS2(perps2) == <<SumSeq(perps2, 1), Len(perps2) - 1>>

\* The segments the regression takes, in ascending index: those of two or
\* more points (CalculateRMS is never negative for them).
RECURSIVE UsedSegments(_, _)
UsedSegments(m, keys) ==
  IF keys = {} THEN <<>>
  ELSE LET k == CHOOSE x \in keys : \A y \in keys : x <= y
           rest == UsedSegments(m, keys \ {k})
       IN  IF Len(m[k]) < 2 THEN rest
           ELSE <<[segment |-> k, rms2 |-> CalculateRMS2(m[k])]>> \o rest

RECURSIVE SumSegments(_, _, _)
SumSegments(used, i, power) ==
  IF i > Len(used) THEN 0 ELSE used[i].segment ^ power + SumSegments(used, i + 1, power)

\* The regression: counter * sumx2 - sumx * sumx and the return that follows
Regression(used) ==
  LET counter == Len(used)
      sumx == SumSegments(used, 1, 1)
      sumx2 == SumSegments(used, 1, 2)
      denom == counter * sumx2 - sumx * sumx
  IN  IF denom = 0 THEN ReturnZero("denom") ELSE Returned("value", "", used, denom)

\* The call after its two entry tests, on the ordered sps
GradientOfOrdered(sps, centre, direction, nSeg) ==
  LET minProj == SpacePointProjection(sps[1], centre, direction)
      maxProj == SpacePointProjection(sps[Len(sps)], centre, direction)
      length == maxProj - minProj
  IN  IF length <= 0 THEN ReturnZero("segmentsize")
      ELSE Regression(
             LET m == SegmentLoop(sps, centre, direction, nSeg, length, 1, <<>>)
             IN  UsedSegments(m, DOMAIN m))

\* An entry that tests the number of points before the number of segments.
RMSShowerGradientSizeFirst(sps, centre, direction, nSeg) ==
  IF Len(sps) < MinGradientPoints THEN [ret |-> ReturnZero("size"), sps |-> sps]
  ELSE IF nSeg = 0 THEN [ret |-> Thrown, sps |-> sps]
  ELSE LET ordered == OrderShowerSpacePoints(sps, centre, direction)
       IN  [ret |-> GradientOfOrdered(ordered, centre, direction, nSeg), sps |-> ordered]

\* RMSShowerGradient: what it returns and what it leaves in sps
RMSShowerGradient(sps, centre, direction, nSeg) ==
  IF nSeg = 0 THEN [ret |-> Thrown, sps |-> sps]
  ELSE IF Len(sps) < MinGradientPoints THEN [ret |-> ReturnZero("size"), sps |-> sps]
  ELSE LET ordered == OrderShowerSpacePoints(sps, centre, direction)
       IN  [ret |-> GradientOfOrdered(ordered, centre, direction, nSeg), sps |-> ordered]

InitGradient ==
  /\ grSps \in SeqsUpTo(GrSpacePointPool, MaxGr)
  /\ grInput = grSps
  /\ grCentre \in GrCentres
  /\ grDirection \in GrDirections
  /\ nSegments \in 0..MaxSegments
  /\ grRet = NoReturn
  /\ grPc = "start"
  /\ IdleCtr /\ IdleSce /\ IdleVisit
  /\ IdleOrg /\ IdleTrim /\ IdleOrd /\ IdleCalc

RMSShowerGradientCall ==
  /\ grPc = "start"
  /\ LET r == RMSShowerGradient(grSps, grCentre, grDirection, nSegments)
     IN  grRet' = r.ret /\ grSps' = r.sps
  /\ grPc' = "done"
  /\ UNCHANGED <<grInput, grCentre, grDirection, nSegments, orgVars, trimVars, ordVars,
                 calcVars, ctrVars, sceVars, visitVars>>

NextGradient == RMSShowerGradientCall

SpecGradient == InitGradient /\ [][NextGradient]_vars

\* C16: a call with nSegments = 0 throws, whatever the number of points; a
\* call with nSegments > 0 on fewer than 3 points returns 0.
C16_SegmentCheckFirst ==
  grPc = "done" =>
    /\ nSegments = 0 => grRet.kind = "throw"
    /\ (nSegments > 0 /\ Len(grInput) < 3) => grRet.kind = "return 0"

\* C16 witness: a call with nSegments = 0 on two points has thrown.
C16_Witness ==
  grPc = "done" /\ nSegments = 0 /\ Len(grInput) = 2 /\ grRet.kind = "throw"

\* C18: RMSShowerGradient leaves the caller's collection as it was, the same
\* elements in the same order.
C18_InputUnchanged == grPc = "done" => grSps = grInput

(***************************************************************************)
(* SCECorrectPitch and SCECorrectEField, as operations on the space charge *)
(* service fSCE                                                            *)
(***************************************************************************)
SceArgs == {1, 2, 3, 4}

\* The services the algorithm may hold: none, or one with each capability on
\* or off.
Services ==
  {NoService} \cup
  {[present |-> TRUE, EnableCalSpatialSCE |-> a, EnableSimEfieldSCE |-> b] :
     a \in BOOLEAN, b \in BOOLEAN}

\* The service's relative field distortion along the drift, and the X
\* component of detProp.NomEfieldDir
EfieldOffsetX == 1
NomEfieldDirX == 1

\* (EFieldOffsets + NomEfieldDir) * EField, its magnitude
CorrectedEField(EField) == Abs((EfieldOffsetX + NomEfieldDirX) * EField)

\* A pitch correction that tests the field capability instead.
SCECorrectPitchWrongCapability(service, pitch, lookups) ==
  IF ~service.present \/ ~service.EnableSimEfieldSCE
    THEN [ret |-> Thrown, lookups |-> lookups]
    ELSE [ret |-> Returned("value", "", <<SCECorrectPitch(pitch)>>, 1),
          lookups |-> lookups \o <<"GetPosOffsets", "GetCalPosOffsets", "GetCalPosOffsets">>]

\* SCECorrectPitch on the service: what it returns and the lookups made
SCECorrectPitchOn(service, pitch, lookups) ==
  IF ~service.present \/ ~service.EnableCalSpatialSCE
    THEN [ret |-> Thrown, lookups |-> lookups]
    ELSE [ret |-> Returned("value", "", <<SCECorrectPitch(pitch)>>, 1),
          lookups |-> lookups \o <<"GetPosOffsets", "GetCalPosOffsets", "GetCalPosOffsets">>]

\* SCECorrectEField on the service
SCECorrectEFieldOn(service, EField, lookups) ==
  IF ~service.present \/ ~service.EnableSimEfieldSCE
    THEN [ret |-> Thrown, lookups |-> lookups]
    ELSE [ret |-> Returned("value", "", <<CorrectedEField(EField)>>, 1),
          lookups |-> lookups \o <<"GetEfieldOffsets">>]

InitSCE ==
  /\ fSCE \in Services
  /\ sceArg = 0
  /\ sceLookups = <<>>
  /\ sceRet = NoReturn
  /\ sceOps = <<>>
  /\ IdleCtr /\ IdleGr /\ IdleVisit
  /\ IdleOrg /\ IdleTrim /\ IdleOrd /\ IdleCalc

notSce == <<orgVars, trimVars, ordVars, calcVars, ctrVars, grVars, visitVars>>

SCECorrectPitchCall ==
  /\ Len(sceOps) < MaxCalls
  /\ \E pitch \in SceArgs :
       LET r == SCECorrectPitchOn(fSCE, pitch, sceLookups)
       IN  sceArg' = pitch /\ sceRet' = r.ret /\ sceLookups' = r.lookups
  /\ sceOps' = Append(sceOps, "pitch")
  /\ UNCHANGED <<fSCE, notSce>>

SCECorrectEFieldCall ==
  /\ Len(sceOps) < MaxCalls
  /\ \E EField \in SceArgs :
       LET r == SCECorrectEFieldOn(fSCE, EField, sceLookups)
       IN  sceArg' = EField /\ sceRet' = r.ret /\ sceLookups' = r.lookups
  /\ sceOps' = Append(sceOps, "efield")
  /\ UNCHANGED <<fSCE, notSce>>

NextSCE == SCECorrectPitchCall \/ SCECorrectEFieldCall

SpecSCE == InitSCE /\ [][NextSCE]_vars

\* C17: a SCECorrectPitch call on an absent service or one without the
\* calibrated-spatial capability, and a SCECorrectEField call on an absent
\* service or one without the field capability, throws, returns nothing and
\* makes no lookup on the service.
C17_UnconfiguredThrowsBeforeLookup ==
  [][/\ (/\ sceOps' = Append(sceOps, "pitch")
         /\ ~(fSCE.present /\ fSCE.EnableCalSpatialSCE)) =>
          (sceRet' = Thrown /\ sceLookups' = sceLookups)
     /\ (/\ sceOps' = Append(sceOps, "efield")
         /\ ~(fSCE.present /\ fSCE.EnableSimEfieldSCE)) =>
          (sceRet' = Thrown /\ sceLookups' = sceLookups)]_vars

\* C17 witness: on a service with the field capability only, a field
\* correction has made its lookup and a pitch correction after it has thrown
\* without a further lookup.
C17_Witness ==
  /\ fSCE.present /\ ~fSCE.EnableCalSpatialSCE /\ fSCE.EnableSimEfieldSCE
  /\ sceOps = <<"efield", "pitch">>
  /\ sceRet = Thrown
  /\ sceLookups = <<"GetEfieldOffsets">>

(***************************************************************************)
(* FinddEdxLength: the regime and the rescue rule                          *)
(***************************************************************************)
\* At least 2 of the first 3 values are strictly above the cut.
MajorityAbove ==
  Cardinality({i \in 1..3 : dEdx_vec[i] > fdEdxCut}) >= 2

\* A value is consistent with the regime: above the cut in the upper-bound
\* regime, below it otherwise.
Consistent(upperbound, dEdx) ==
  IF upperbound THEN dEdx > fdEdxCut ELSE dEdx < fdEdxCut

\* The rescue rule as stated: an inconsistent point is dropped and the scan
\* goes on iff one of the next two points exists and is consistent.
StatedVerdict(upperbound, dEdx_iter) ==
  LET size == Len(dEdx_vec)
  IN  IF Consistent(upperbound, dEdx_vec[dEdx_iter + 1]) THEN "push"
      ELSE IF dEdx_iter < size - 1 /\ Consistent(upperbound, dEdx_vec[dEdx_iter + 2])
        THEN "drop"
      ELSE IF dEdx_iter < size - 2 /\ Consistent(upperbound, dEdx_vec[dEdx_iter + 3])
        THEN "drop"
      ELSE "break"

RECURSIVE StatedScan(_, _, _)
StatedScan(upperbound, dEdx_iter, val) ==
  IF dEdx_iter >= Len(dEdx_vec) THEN val
  ELSE LET v == StatedVerdict(upperbound, dEdx_iter)
       IN  IF v = "break" THEN val
           ELSE StatedScan(upperbound, dEdx_iter + 1,
                           IF v = "push" THEN Append(val, dEdx_vec[dEdx_iter + 1]) ELSE val)

\* C19: with the cut active and at least 4 values, the output is what the scan
\* gives under the stated rescue rule: in either regime an inconsistent point
\* is dropped and the scan continues iff one of the next two points exists and
\* is consistent with the regime, else the scan stops there.
C19_RescueByRegime ==
  (trimPc = "done" /\ CutActive /\ Len(dEdx_vec) >= 4) =>
    dEdx_val = StatedScan(MajorityAbove, ScanStart, SubSeq(dEdx_vec, 1, 3))

\* C20: with the cut active and at least 4 values, the output begins with the
\* first three input values, and every value after them is strictly above the
\* cut when at least 2 of the first 3 values are strictly above it, strictly
\* below the cut otherwise.
C20_RegimeAndScan ==
  (trimPc = "done" /\ CutActive /\ Len(dEdx_vec) >= 4) =>
    /\ Len(dEdx_val) >= 3
    /\ SubSeq(dEdx_val, 1, 3) = SubSeq(dEdx_vec, 1, 3)
    /\ \A i \in 4..Len(dEdx_val) :
         IF MajorityAbove THEN dEdx_val[i] > fdEdxCut ELSE dEdx_val[i] < fdEdxCut

\* C20 witness: exactly one of the first three values is above the cut, one
\* equals it, a later value equals the cut too, and the scan has appended a
\* value below the cut.
C20_Witness ==
  /\ trimPc = "done" /\ CutActive /\ Len(dEdx_vec) >= 4
  /\ Cardinality({i \in 1..3 : dEdx_vec[i] > fdEdxCut}) = 1
  /\ \E i \in 1..3 : dEdx_vec[i] = fdEdxCut
  /\ \E i \in 4..Len(dEdx_vec) : dEdx_vec[i] = fdEdxCut
  /\ Len(dEdx_val) >= 4
  /\ fdEdxCut \notin {dEdx_val[i] : i \in 4..Len(dEdx_val)}

(***************************************************************************)
(* FinddEdxLength: the output as a subsequence of the input                *)
(***************************************************************************)
\* out can be read off vec from position from on, left to right, each
\* position of vec giving at most one element of out.
RECURSIVE IsSubsequenceFrom(_, _, _, _)
IsSubsequenceFrom(out, vec, o, from) ==
  IF o > Len(out) THEN TRUE
  ELSE IF from > Len(vec) THEN FALSE
  ELSE IF out[o] = vec[from] THEN IsSubsequenceFrom(out, vec, o + 1, from + 1)
  ELSE IsSubsequenceFrom(out, vec, o, from + 1)

\* C21: for every input and every cut value the output of FinddEdxLength is
\* an order-preserving subsequence of its input, each input position giving
\* at most one output element, so the output is never longer than the input.
C21_OutputIsSubsequence ==
  trimPc = "done" =>
    /\ Len(dEdx_val) <= Len(dEdx_vec)
    /\ IsSubsequenceFrom(dEdx_val, dEdx_vec, 1, 1)

(***************************************************************************)
(* ShowerCentre: the trimming window of the all-plane averaging            *)
(***************************************************************************)
\* The all-plane averaging policy was used by a charge-weighted call.
AveragedDone == WeightedDone /\ ~fUseCollectionOnly

\* The unbiased sample variance of the corrected integrals of n >= 2 hits:
\* (sum of q_i^2 - (sum of q_i)^2 / n) / (n - 1).
SampleVariance(hits) ==
  LET n == Len(hits)
      sum == SumQ(hits, DOMAIN hits, 1)
      sum2 == SumQ(hits, DOMAIN hits, 2)
  IN  Norm(n * sum2 - sum * sum, n * (n - 1))

\* C22: under the all-plane averaging policy, for a spacepoint with two hits
\* or more the square of the spread used for the 2-sigma window is the
\* unbiased sample variance of the lifetime-corrected integrals.
C22_SpreadIsSampleDeviation ==
  AveragedDone =>
    \A i \in DOMAIN ctrSps :
      Len(ctrSps[i].hits) >= 2 =>
        RmsSquared(ctrSps[i].hits) = SampleVariance(ctrSps[i].hits)

\* C23: under the all-plane averaging policy, a spacepoint none of whose
\* hits falls inside the window (a spacepoint without hits included) has
\* charge exactly 0.
C23_EmptyWindowZeroCharge ==
  AveragedDone =>
    \A i \in DOMAIN ctrSps :
      WithinWindow(ctrSps[i].hits) = {} => CtrPointCharge(i) = Zero

(***************************************************************************)
(* CalculateElement: one iteration of the loop over tracksps               *)
(*                                                                         *)
(* The iteration is run on a drawn spacepoint, configuration and initial   *)
(* track, with num_hits and dEdx_vec as they are when the loop is entered. *)
(***************************************************************************)
\* A trajectory point far from every spacepoint
FarPoint == [pos |-> <<0, 20, 0>>, NoPoint |-> FALSE, angleToWire |-> 3,
             time_taken |-> 1, trackpitch |-> 1]

\* InitialTrack with n far points between its first and its second point
LongTrack(n) ==
  <<InitialTrack[1]>> \o [i \in 1..n |-> FarPoint] \o SubSeq(InitialTrack, 2, Len(InitialTrack))

PadLengths == {0, NoIndex - 2, NoIndex - 1}

InitPoint ==
  /\ fUseMedian = FALSE
  /\ fSumHitSnippets \in BOOLEAN
  /\ fCutStartPosition \in BOOLEAN
  /\ fSCECorrectPitch \in BOOLEAN
  /\ EnableCalSpatialSCE \in BOOLEAN
  /\ fdEdxCut \in {cut \in dEdxCuts : cut > CutDisabledAbove}
  /\ \E n \in PadLengths :
       ShowerEleHolder =
         [l \in RequiredLabels \cup {fInitialTrackHitsInputLabel} |->
            CASE l = fShowerStartPositionInputLabel -> ShowerStartPosition
              [] l = fInitialTrackSpacePointsInputLabel -> [size |-> 1]
              [] l = fInitialTrackInputLabel -> LongTrack(n)
              [] l = fInitialTrackHitsInputLabel -> InitialTrackHits]
  /\ calcPc = "loop"
  /\ calcRet = "none"
  /\ spLeft = 1
  /\ num_hits = [plane \in PlaneIndices |-> 0]
  /\ calc_dEdx_vec = [plane \in PlaneIndices |-> <<>>]
  /\ visitSp \in CalcSpacePointPool
  /\ visitIndex = 0
  /\ visitVerdict = NoVerdict
  /\ visitPc = "start"
  /\ dEdx_vec = <<>> /\ dEdx_val = <<>> /\ trimPc = "idle"
  /\ IdleOrg /\ IdleOrd /\ IdleCtr /\ IdleGr /\ IdleSce

\* The continues taken before the loop over the trajectory points
BeforeMatching == {"no hit", "snippet", "tpc", "start cut"}

\* The index the loop over the trajectory points leaves for visitSp
VisitClosest ==
  ClosestTrajectoryPoint(ShowerEleHolder[fInitialTrackInputLabel], visitSp.pos,
                         WirePitch(visitSp.hits[1].plane), 0, NoIndex, Sq(MinDistInit))

\* The loop body on visitSp
VisitSpacePoint ==
  /\ visitPc = "start"
  /\ calcPc = "loop"
  /\ spLeft > 0
  /\ LET v == Verdict(visitSp)
     IN  /\ visitVerdict' = [kind |-> v.kind, at |-> v.at,
                             dEdx |-> IF v.kind = "accept" THEN v.dEdx ELSE 0]
         /\ num_hits' = IF v.kind = "skip" THEN num_hits
                        ELSE [num_hits EXCEPT ![v.plane] = @ + 1]
         /\ calc_dEdx_vec' = IF v.kind = "accept"
                               THEN [calc_dEdx_vec EXCEPT ![v.plane] = Append(@, v.dEdx)]
                               ELSE calc_dEdx_vec
         /\ calcPc' = IF v.kind = "throw" THEN "done" ELSE calcPc
         /\ calcRet' = IF v.kind = "throw" THEN "throw" ELSE calcRet
         /\ spLeft' = IF v.kind = "throw" THEN spLeft ELSE spLeft - 1
  /\ visitIndex' = IF Verdict(visitSp).at \in BeforeMatching THEN visitIndex
                   ELSE VisitClosest
  /\ visitPc' = "done"
  /\ UNCHANGED <<ShowerEleHolder, calcConfig, visitSp, orgVars, trimVars, ordVars,
                 ctrVars, grVars, sceVars>>

NextPoint == VisitSpacePoint

SpecPoint == InitPoint /\ [][NextPoint]_vars

\* The iteration got as far as the search for the closest trajectory point.
ReachedMatching ==
  visitPc = "done" /\ visitVerdict.at \notin BeforeMatching

\* 0-based indices of the trajectory points without the NoPoint flag that
\* lie within MaxDist x wirePitch of visitSp
WithinMaxDist ==
  LET track == ShowerEleHolder[fInitialTrackInputLabel]
      wirepitch == WirePitch(visitSp.hits[1].plane)
  IN  {traj \in 0..(Len(track) - 1) :
         /\ ~track[traj + 1].NoPoint
         /\ Mag2(Sub3(visitSp.pos, track[traj + 1].pos)) < Sq(fMaxDist * wirepitch)}

\* The nearest of them, the lowest index on equal distance
Nearest(near) ==
  LET track == ShowerEleHolder[fInitialTrackInputLabel]
      d2(traj) == Mag2(Sub3(visitSp.pos, track[traj + 1].pos))
  IN  CHOOSE traj \in near :
        \A other \in near : d2(traj) < d2(other) \/ (d2(traj) = d2(other) /\ traj <= other)

\* C24: a spacepoint that reached the trajectory matching is rejected there
\* if and only if no trajectory point without the NoPoint flag lies within
\* MaxDist x wirePitch of it; when there is one, the spacepoint is matched to
\* the nearest, the lowest index on equal distance.
C24_MatchedIffWithinMaxDist ==
  ReachedMatching =>
    /\ visitVerdict.at = "matching" <=> WithinMaxDist = {}
    /\ WithinMaxDist # {} => visitIndex = Nearest(WithinMaxDist)

\* The 3D pitch the iteration divides the charge by
VisitPitch ==
  LET pt == ShowerEleHolder[fInitialTrackInputLabel][visitIndex + 1]
  IN  IF fSCECorrectPitch THEN SCECorrectPitch(pt.trackpitch) ELSE pt.trackpitch

\* The iteration pushed a dE/dx value: the one in visitVerdict, on the plane
\* of the spacepoint's first hit.
Contributed ==
  /\ visitVerdict.kind = "accept"
  /\ calc_dEdx_vec[visitSp.hits[1].plane] = <<visitVerdict.dEdx>>
NothingPushed == \A plane \in PlaneIndices : calc_dEdx_vec[plane] = <<>>

\* C25: with snippet summing enabled a spacepoint contributes a dE/dx value
\* only if its first hit is a key of OrganizeHits' map of the initial-track
\* hits, a spacepoint whose first hit is not a key contributes nothing, and
\* the charge of a contributing spacepoint is its first hit's integral plus
\* the integrals of that hit's secondaries; with snippet summing disabled
\* the charge is the first hit's integral alone and no spacepoint is skipped
\* for its snippet membership.
C25_SnippetSumming ==
  (visitPc = "done" /\ visitSp.hits # <<>>) =>
    LET hit == visitSp.hits[1]
        primaries == OrganizeHits(InitialTrackHits)
    IN  IF fSumHitSnippets
          THEN /\ hit \notin DOMAIN primaries =>
                    visitVerdict.kind = "skip" /\ NothingPushed
               /\ visitVerdict.kind = "accept" =>
                    /\ hit \in DOMAIN primaries
                    /\ Contributed
                    /\ visitVerdict.dEdx =
                         dEdx_AREA((hit.integral + SumIntegrals(primaries[hit], 1))
                                   \div VisitPitch)
          ELSE /\ visitVerdict.at # "snippet"
               /\ visitVerdict.kind = "accept" =>
                    /\ Contributed
                    /\ visitVerdict.dEdx = dEdx_AREA(hit.integral \div VisitPitch)

\* C25 witness: snippets are summed and a spacepoint whose first hit has a
\* secondary has contributed.
C25_Witness ==
  /\ visitPc = "done" /\ fSumHitSnippets
  /\ Contributed
  /\ OrganizeHits(InitialTrackHits)[visitSp.hits[1]] # <<>>

(***************************************************************************)
(* OrderShowerHits: the order of the output                                *)
(***************************************************************************)
\* OrderShowerHits was the latest operation; ordHits is its output.
HitsOrdered == ordMode = "hits" /\ ordOps # <<>>

Ascending(hitlist) ==
  \A i, j \in DOMAIN hitlist : i < j => OrdHitProjection(hitlist[i]) < OrdHitProjection(hitlist[j])
Descending(hitlist) == Ascending(Reverse(hitlist))

\* C26: the output of OrderShowerHits is strictly ascending in the projection
\* onto the shower direction, unless in ascending order the absolute
\* projection of the last hit is smaller than that of the first, and then it
\* is the reverse, strictly descending; in every output the absolute
\* projection of the first hit is at most that of the last.
C26_AscendingOrReversed ==
  HitsOrdered =>
    LET n == Len(ordHits)
        first == OrdHitProjection(ordHits[1])
        last == OrdHitProjection(ordHits[n])
    IN  /\ n >= 1
        /\ Abs(first) <= Abs(last)
        /\ IF n >= 2 /\ Abs(first) < Abs(last) /\ last < first
             THEN Descending(ordHits)
             ELSE Ascending(ordHits)

\* C26 witness: an output of two hits or more that was reversed.
C26_Witness ==
  /\ HitsOrdered
  /\ Len(ordHits) >= 2
  /\ Descending(ordHits)
  /\ Len(ordOps) = 1
  /\ Len(ordInput) > Len(ordHits)

(***************************************************************************)
(* CalculateElement: the stored dE/dx values and their errors              *)
(***************************************************************************)
\* C27: when CalculateElement has stored its outputs, the stored dE/dx value
\* vector and the stored error vector both have one entry per plane, in
\* ascending plane index, and both hold -999 at the index of a plane whose
\* trimmed sequence is empty.
C27_ValuesAndErrorsAligned ==
  Stored =>
    LET out == ShowerEleHolder[fShowerdEdxOutputLabel]
        dEdx_vec_cut == ShowerEleHolder[fShowerdEdxVecOutputLabel]
    IN  /\ Len(out.val) = MaxPlanes
        /\ Len(out.err) = Len(out.val)
        /\ \A plane \in PlaneIndices :
             dEdx_vec_cut[plane] = <<>> =>
               /\ out.val[plane + 1] = <<Sentinel, 1>>
               /\ out.err[plane + 1] = <<Sentinel, 1>>

====
